---- MODULE Spec2Model ----
(***************************************************************************)
(* Execution host (index.js), interpreter worker (interpreter-worker.js),  *)
(* resource limiter and built-ins (utils.js) and the evaluator's handling  *)
(* of errors (evaluator.js, interpreter.js) of plainprince/interpreter.    *)
(***************************************************************************)
EXTENDS Integers, Sequences, FiniteSets, TLC

(***************************************************************************)
(* Bounds of the model.                                                    *)
(***************************************************************************)
MaxRequests == 3
NumSockets == 2
MaxStmts == 1
MaxSessionStmts == 2
MaxSessionEvents == 2
MaxCalls == 5
MaxLimit == 4
MaxIter == 3
MaxNum == 2
MaxCode == 4
MaxTokens == 4
MaxQueued == 3

(***************************************************************************)
(* Program constants.                                                      *)
(***************************************************************************)
GuestTimeoutMs == 10000
AuthTimeoutMs == 60000

Sockets == 1..NumSockets
Reqs == 1..MaxRequests


\* maxCommands: Infinity (index.js limits, worker defaultLimits): above every
\* command count a bounded run can reach.
Infinity == MaxSessionStmts + MaxSessionEvents + MaxStmts + MaxCalls + 1
\* settings.limits absent in the interpret request
NoLimits == -1

\* evaluator.js handlerNames
handlerNames == {"onKeyDown", "onKeyUp", "onMouseMove", "onMouseDown", "onMouseUp", "onMouseClick"}
\* function names a script may define: the recognized ones and another one
FunctionNames == handlerNames \cup {"helper"}

VARIABLES
    isGuestRunnerActive,  \* index.js: let isGuestRunnerActive
    guestQueue,           \* index.js: const guestQueue (request ids, head first)
    requests,             \* interpret requests received so far: [socket, limits]
    sockets,              \* per socket: [loggedIn, connected]
    sess,                 \* per request: the closure state of runInterpreter
    wk,                   \* per request: the state of its worker thread
    order,                \* requests in the order runInterpreter was called
    now,                  \* host wall clock (ms)
    nevents,              \* input events injected so far
    resourceLimiter,      \* a ResourceLimiter on its own: [commandCount, limits]
    calls,                \* the outcome of each incrementCommand() made on it
    params,               \* the script the evaluator runs, by its parameters
    pc,                   \* evaluator: index of the next top-level statement
    machine,              \* evaluator: frames, function values and output
    status                \* evaluator: "idle", "running", "done" or "threw"

vars == <<isGuestRunnerActive, guestQueue, requests, sockets, sess, wk, order, now,
          nevents, resourceLimiter, calls, params, pc, machine, status>>

hostVars == <<isGuestRunnerActive, guestQueue, requests, sockets, sess, wk, order, now, nevents>>
limiterVars == <<resourceLimiter, calls>>
evalVars == <<params, pc, machine, status>>

(***************************************************************************)
(* Resource limiter (utils.js).                                            *)
(***************************************************************************)
\* new ResourceLimiter(limits); reset(): commandCount = 0
newResourceLimiter(maxCommands) ==
    [commandCount |-> 0, limits |-> [maxCommands |-> maxCommands]]

\* checkLimits(): "ok" or the limit whose error is thrown. env is what the two
\* samples (Date.now, heapUsed) show: "ok", "cpu" (elapsed >= maxCpuTimeMs) or
\* "memory" (delta >= maxMemoryMB).
checkLimits(l, env) ==
    IF l.commandCount >= l.limits.maxCommands THEN "command"
    ELSE IF env = "cpu" THEN "cpu"
    ELSE IF env = "memory" THEN "memory"
    ELSE "ok"

\* a limiter that counts a call only after its check passed
incrementCommandCheckFirst(l, env) ==
    LET thrown == checkLimits([l EXCEPT !.commandCount = @ + 1], env)
    IN  [limiter |-> IF thrown = "ok" THEN [l EXCEPT !.commandCount = @ + 1] ELSE l,
         thrown |-> thrown]

\* incrementCommand(): commandCount++ and then checkLimits()
incrementCommand(l, env) ==
    LET l1 == [l EXCEPT !.commandCount = @ + 1]
    IN  [limiter |-> l1, thrown |-> checkLimits(l1, env)]

\* getUsage().commands
getUsage(l) == [commands |-> l.commandCount]

LimitEnv == {"ok", "cpu", "memory"}

(***************************************************************************)
(* Worker thread (interpreter-worker.js) with the script it runs.          *)
(***************************************************************************)
\* A statement of the script, as far as errors and output go:
\*   ctx  where its call is made: "top" (a top-level expression statement),
\*        "fn" (in the body of a user function that is called) or "interp" (in
\*        a ${} of a string literal);
\*   op   what is called: a primitive of utils.js ("log" = console.log,
\*        "pixel", "clear" = console.clear, "wait"), "exit", "bad" (a call of a non-function, a
\*        RuntimeError), "assign" (no call: x = 1) or "def" (function name ... end);
\*   name, body  for "def": the function's name and the one call its body makes.
Contexts == {"top", "fn", "interp"}
CallOps == {"log", "pixel", "clear", "wait", "exit", "bad", "assign"}
HandlerBodies == {"log", "exit", "bad"}
CallStmts == {s \in [ctx : Contexts, op : CallOps, name : {""}, body : {""}] :
                 s.ctx = "top" \/ s.op \in {"log", "exit", "bad"}}
DefStmts == {s \in [ctx : {"top"}, op : {"def"}, name : FunctionNames, body : HandlerBodies] :
                s.name = "onKeyDown" \/ s.body = "log"}

NoHandlers == [n \in handlerNames |-> "null"]

\* The worker before its 'run' message: running = false, state = null.
NoWorker ==
    [st |-> "none", running |-> FALSE, shouldExit |-> FALSE,
     eventHandlers |-> NoHandlers, resourceLimiter |-> newResourceLimiter(Infinity),
     steps |-> 0, chan |-> <<>>, inbox |-> <<>>,
     \* history of the run, read by the properties only
     exitCalled |-> FALSE, exitInBody |-> FALSE, limitHit |-> FALSE,
     ranAfterExit |-> FALSE, ranAfterLimit |-> FALSE, handlerAfterExit |-> FALSE,
     defined |-> {}, posted |-> {}, bodyEnd |-> "none",
     handlerErrors |-> 0, dispatchedAfterError |-> FALSE, primitives |-> 0]

\* post(type, data)
post(w, msg) == [w EXCEPT !.chan = Append(@, msg)]

\* a primitive that acts before it counts the call and checks the limits
callBuiltinActFirst(w, op, env) ==
    LET inc == incrementCommand(w.resourceLimiter, env)
        w1 == [w EXCEPT !.resourceLimiter = inc.limiter, !.primitives = @ + 1]
        w2 == IF op = "log" THEN post(w1, "output")
              ELSE IF op = "pixel" THEN post(w1, "canvas")
              ELSE IF op = "clear" THEN post(w1, "clear")
              ELSE w1
    IN  IF op = "assign" THEN [w |-> w, sig |-> "none"]
        ELSE IF op = "exit" THEN
            [w |-> [w EXCEPT !.shouldExit = TRUE, !.exitCalled = TRUE,
                             !.exitInBody = @ \/ (w.st \in {"running", "waiting"})],
             sig |-> "exit"]
        ELSE IF op = "bad" THEN [w |-> w, sig |-> "error"]
        ELSE IF inc.thrown # "ok" THEN [w |-> [w2 EXCEPT !.limitHit = TRUE], sig |-> "limit"]
        ELSE [w |-> w2, sig |-> IF op = "wait" THEN "wait" ELSE "none"]

\* utils.js getInitialState: one call of a built-in. Returns the worker and the
\* signal the call ends with: "none", "wait" (a promise the caller awaits) or
\* what it throws ("exit", "error", "limit").
callBuiltin(w, op, env) ==
    IF op = "assign" THEN [w |-> w, sig |-> "none"]
    ELSE IF op = "exit" THEN
        \* exit: state.shouldExit = true; throw new Error("exit")
        [w |-> [w EXCEPT !.shouldExit = TRUE, !.exitCalled = TRUE,
                         !.exitInBody = @ \/ (w.st \in {"running", "waiting"})],
         sig |-> "exit"]
    ELSE IF op = "bad" THEN
        \* evaluator.js Call: throw new Error("Attempt to call non-function")
        [w |-> w, sig |-> "error"]
    ELSE
        \* a primitive: resourceLimiter.incrementCommand() and then its effect
        LET inc == incrementCommand(w.resourceLimiter, env)
            w1 == [w EXCEPT !.resourceLimiter = inc.limiter, !.primitives = @ + 1]
        IN  IF inc.thrown # "ok" THEN [w |-> [w1 EXCEPT !.limitHit = TRUE], sig |-> "limit"]
            ELSE IF op = "log" THEN [w |-> post(w1, "output"), sig |-> "none"]
            ELSE IF op = "pixel" THEN [w |-> post(w1, "canvas"), sig |-> "none"]
            ELSE IF op = "clear" THEN [w |-> post(w1, "clear"), sig |-> "none"]
            ELSE [w |-> w1, sig |-> "wait"]

\* evaluator.js: the call in its context. interpolate() catches whatever the
\* ${} expression throws and keeps the text; a function body rethrows
\* everything but Return; a top-level statement lets it through.
evalCall(w, stmt, env) ==
    LET c == callBuiltin(w, stmt.op, env)
    IN  IF stmt.ctx = "interp" /\ c.sig \in {"exit", "error", "limit"}
        THEN [c EXCEPT !.sig = "none"]
        ELSE c

\* an evaluator that registers onKeyDown only
evalFunctionKeyDownOnly(w, stmt) ==
    [w EXCEPT !.defined = @ \cup {stmt.name},
              !.eventHandlers = IF stmt.name = "onKeyDown"
                                THEN [@ EXCEPT ![stmt.name] = stmt.body]
                                ELSE @]

\* evaluator.js case "Function": setVar(name, func) and, for a recognized
\* name, state.eventHandlers[name] = func
evalFunction(w, stmt) ==
    [w EXCEPT !.defined = @ \cup {stmt.name},
              !.eventHandlers = IF stmt.name \in handlerNames
                                THEN [@ EXCEPT ![stmt.name] = stmt.body]
                                ELSE @]

\* interpreter-worker.js 84-107: interpret() returned result ("OK", or
\* "undefined" after it caught the exit error)
runReturned(w, result) ==
    IF result = "exit" \/ w.shouldExit THEN
        [post(w, "done_exit") EXCEPT
            !.running = FALSE, !.st = "finished", !.posted = @ \cup {"done_exit"},
            !.bodyEnd = "done"]
    ELSE IF \E n \in handlerNames : w.eventHandlers[n] # "null" THEN
        [w EXCEPT !.st = "awaiting", !.bodyEnd = "awaiting"]
    ELSE
        [post(w, "done_OK") EXCEPT
            !.running = FALSE, !.st = "finished", !.posted = @ \cup {"done_OK"},
            !.bodyEnd = "done"]

\* interpreter-worker.js 108-112: interpret() threw
runThrew(w) ==
    [post(w, "error") EXCEPT !.running = FALSE, !.st = "finished",
                             !.posted = @ \cup {"error"}]

\* interpreter.js interpret: the outcome of one top-level statement
afterStmt(w, sig) ==
    IF sig = "none" THEN w
    ELSE IF sig = "wait" THEN [w EXCEPT !.st = "waiting"]
    ELSE IF sig = "exit" THEN runReturned(w, "undefined")
    ELSE runThrew(w)

\* a statement starts to execute
begin(w) ==
    [w EXCEPT !.ranAfterExit = @ \/ w.exitCalled,
              !.ranAfterLimit = @ \/ w.limitHit]

execStmt(w, stmt, env) ==
    LET w0 == [begin(w) EXCEPT !.steps = @ + 1]
    IN  IF stmt.op = "def" THEN evalFunction(w0, stmt)
        ELSE LET c == evalCall(w0, stmt, env) IN afterStmt(c.w, c.sig)

\* a worker whose 'event' branch has no catch: the handler's error ends the run
onEventMessageUncaught(w, env) ==
    LET name == Head(w.inbox)
        body == w.eventHandlers[name]
        w0 == [w EXCEPT !.inbox = Tail(@)]
    IN  IF body = "null" THEN w0
        ELSE LET w1 == [begin(w0) EXCEPT !.handlerAfterExit = @ \/ w.exitCalled,
                                         !.dispatchedAfterError = @ \/ (w.handlerErrors > 0)]
                 c == callBuiltin(w1, body, env)
             IN  IF c.sig \in {"exit", "error", "limit"}
                 THEN [runThrew(c.w) EXCEPT
                          !.handlerErrors = @ + (IF w.st = "awaiting" THEN 1 ELSE 0)]
                 ELSE c.w

\* interpreter-worker.js 124-135: an 'event' message
onEventMessage(w, env) ==
    LET name == Head(w.inbox)
        body == w.eventHandlers[name]
        w0 == [w EXCEPT !.inbox = Tail(@)]
    IN  IF body = "null" THEN w0
        ELSE LET w1 == [begin(w0) EXCEPT !.handlerAfterExit = @ \/ w.exitCalled,
                                         !.dispatchedAfterError = @ \/ (w.handlerErrors > 0)]
                 c == callBuiltin(w1, body, env)
             IN  IF c.sig \in {"exit", "error", "limit"}
                 THEN [post(c.w, "herr") EXCEPT
                          !.handlerErrors = @ + (IF w.st = "awaiting" THEN 1 ELSE 0)]
                 ELSE c.w

\* worker.terminate(): the thread stops. What it posted before is still
\* delivered to worker.on('message'). The 'exit' event that follows finds
\* isRunning false (cleanup set it before terminate()) and does nothing
\* (index.js 294-302), so it is not queued here.
terminate(w) ==
    IF w.st = "dead" THEN w
    ELSE [w EXCEPT !.st = "dead", !.inbox = <<>>]

(***************************************************************************)
(* Execution host (index.js).                                              *)
(***************************************************************************)
\* The closure of a runInterpreter call that was not made yet.
NoSession ==
    [socket |-> 0, settings |-> NoLimits, started |-> FALSE, isLoggedIn |-> FALSE,
     guest |-> FALSE, worker |-> FALSE, timeout |-> "none", deadline |-> 0,
     startTime |-> 0, isRunning |-> FALSE, listening |-> FALSE,
     eventHandlers |-> FALSE, sent |-> <<>>, queuePos |-> 0, completions |-> 0,
     \* history, read by the properties only
     stoppedAt |-> 0, stoppedIn |-> "none", timedOutIn |-> "none"]

\* The host's state as one value, so that a handler is a function on it.
World ==
    [act |-> isGuestRunnerActive, q |-> guestQueue, sess |-> sess, wk |-> wk,
     order |-> order, now |-> now]

Commit(w) ==
    /\ isGuestRunnerActive' = w.act
    /\ guestQueue' = w.q
    /\ sess' = w.sess
    /\ wk' = w.wk
    /\ order' = w.order

\* socket.emit(event, ...) for the session r
emit(w, r, event) == [w EXCEPT !.sess[r].sent = Append(@, event)]

\* a host that gives every session the guests' timeout
timeoutDurationGuestOnly(isLoggedIn) == GuestTimeoutMs

\* index.js 152
timeoutDuration(isLoggedIn) == IF isLoggedIn THEN AuthTimeoutMs ELSE GuestTimeoutMs

\* index.js 162-167: maxCommands of the limits sent to the worker
hostLimits(settings) == IF settings = NoLimits THEN Infinity ELSE settings

\* index.js 150-319 runInterpreter: listeners on, worker created, timeout set,
\* 'run' posted. guest: onCompleteCallback is processGuestQueue's callback.
runInterpreter(w, r, isLoggedIn, guest) ==
    [w EXCEPT
        !.sess[r] = [@ EXCEPT !.started = TRUE, !.isLoggedIn = isLoggedIn,
                              !.guest = guest, !.worker = TRUE, !.isRunning = TRUE,
                              !.timeout = "armed",
                              !.deadline = w.now + timeoutDuration(isLoggedIn),
                              !.startTime = w.now, !.listening = TRUE,
                              !.eventHandlers = TRUE],
        !.wk[r] = [@ EXCEPT !.st = "idle"],
        !.order = Append(@, r)]

\* a queue that starts the request enqueued last
processGuestQueueLifo(w) ==
    IF w.act \/ w.q = <<>> THEN w
    ELSE
        LET r == w.q[Len(w.q)]
            rest == SubSeq(w.q, 1, Len(w.q) - 1)
            pos(x) == CHOOSE i \in 1..Len(rest) : rest[i] = x
            updated == [x \in Reqs |->
                          IF \E i \in 1..Len(rest) : rest[i] = x
                          THEN [w.sess[x] EXCEPT !.sent = Append(@, "queue_update"),
                                                 !.queuePos = pos(x)]
                          ELSE w.sess[x]]
        IN  runInterpreter([w EXCEPT !.act = TRUE, !.q = rest, !.sess = updated],
                           r, FALSE, TRUE)

\* a queue that does not tell the waiting requests their new positions
processGuestQueueSilent(w) ==
    IF w.act \/ w.q = <<>> THEN w
    ELSE runInterpreter([w EXCEPT !.act = TRUE, !.q = Tail(w.q)], Head(w.q), FALSE, TRUE)

\* index.js 112-128 processGuestQueue
processGuestQueue(w) ==
    IF w.act \/ w.q = <<>> THEN w
    ELSE
        LET r == Head(w.q)
            rest == Tail(w.q)
            pos(x) == CHOOSE i \in 1..Len(rest) : rest[i] = x
            updated == [x \in Reqs |->
                          IF \E i \in 1..Len(rest) : rest[i] = x
                          THEN [w.sess[x] EXCEPT !.sent = Append(@, "queue_update"),
                                                 !.queuePos = pos(x)]
                          ELSE w.sess[x]]
        IN  runInterpreter([w EXCEPT !.act = TRUE, !.q = rest, !.sess = updated],
                           r, FALSE, TRUE)

\* a host that passes the queue's callback to every session
onCompleteCallbackAll(w, r) ==
    processGuestQueue([w EXCEPT !.sess[r].completions = @ + 1, !.act = FALSE])

\* index.js 124-127: the callback processGuestQueue passes to runInterpreter
onCompleteCallback(w, r) ==
    LET w1 == [w EXCEPT !.sess[r].completions = @ + 1]
    IN  IF w.sess[r].guest
        THEN processGuestQueue([w1 EXCEPT !.act = FALSE])
        ELSE w1

\* a host whose sessions end without telling the queue
cleanupSilent(w, r) ==
    [w EXCEPT
       !.sess[r] = [@ EXCEPT !.isRunning = FALSE,
                             !.timeout = IF @ = "armed" THEN "cleared" ELSE @,
                             !.worker = FALSE, !.eventHandlers = FALSE,
                             !.listening = FALSE],
       !.wk[r] = IF w.sess[r].worker THEN terminate(@) ELSE @]

\* index.js 169-188 cleanup
cleanup(w, r) ==
    LET s == w.sess[r]
        w1 == [w EXCEPT
                 !.sess[r] = [@ EXCEPT !.isRunning = FALSE,
                                       !.timeout = IF @ = "armed" THEN "cleared" ELSE @,
                                       !.worker = FALSE, !.eventHandlers = FALSE,
                                       !.listening = FALSE],
                 !.wk[r] = IF s.worker THEN terminate(@) ELSE @]
    IN  onCompleteCallback(w1, r)

\* index.js 190-194 onStopExecution
onStopExecution(w, r) ==
    LET w1 == emit(w, r, "output_stopped")
        w2 == [w1 EXCEPT !.sess[r].stoppedAt = Len(w1.sess[r].sent),
                         !.sess[r].stoppedIn = w.wk[r].st]
    IN  cleanup(w2, r)

\* index.js 196-204 onDisconnect
onDisconnect(w, r) ==
    LET sock == w.sess[r].socket
        hits == {i \in 1..Len(w.q) : w.sess[w.q[i]].socket = sock}
        index == IF hits = {} THEN 0 ELSE CHOOSE i \in hits : \A j \in hits : i <= j
        q1 == IF index > 0
              THEN SubSeq(w.q, 1, index - 1) \o SubSeq(w.q, index + 1, Len(w.q))
              ELSE w.q
    IN  cleanup([w EXCEPT !.q = q1], r)

\* the sessions whose listeners are on the socket, in the order they were added
listeners(w, sock) ==
    SelectSeq(w.order, LAMBDA r : w.sess[r].listening /\ w.sess[r].socket = sock)

RECURSIVE stopAll(_, _)
stopAll(w, rs) ==
    IF rs = <<>> THEN w ELSE stopAll(onStopExecution(w, Head(rs)), Tail(rs))

RECURSIVE disconnectAll(_, _)
disconnectAll(w, rs) ==
    IF rs = <<>> THEN w ELSE disconnectAll(onDisconnect(w, Head(rs)), Tail(rs))

\* index.js 225-229 createEventHandler(eventName)
RECURSIVE eventAll(_, _, _)
eventAll(w, rs, name) ==
    IF rs = <<>> THEN w
    ELSE LET r == Head(rs)
             w1 == IF w.sess[r].worker /\ w.sess[r].isRunning
                   THEN [w EXCEPT !.wk[r].inbox = Append(@, name)]
                   ELSE w
         IN  eventAll(w1, Tail(rs), name)

\* index.js 249-286 worker.on('message')
onMessage(w, r, msg) ==
    IF msg \in {"done_OK", "done_exit", "error"} THEN cleanup(emit(w, r, msg), r)
    ELSE emit(w, r, msg)

\* index.js 288-292 worker.on('error')
onError(w, r) == cleanup(emit(w, r, "error"), r)

\* index.js 294-302 worker.on('exit')
onExit(w, r) ==
    IF w.sess[r].isRunning THEN cleanup(emit(w, r, "done_exit"), r) ELSE w

\* index.js 214-219 the timeout's callback
onTimeout(w, r) ==
    LET w1 == [w EXCEPT !.sess[r].timeout = "fired", !.sess[r].timedOutIn = w.wk[r].st]
    IN  cleanup(emit(emit(w1, r, "error"), r, "done_timeout"), r)

(***************************************************************************)
(* Actions: the host's handlers.                                           *)
(***************************************************************************)
\* index.js 135-147 socket.on('interpret'); cap bounds the requests of a run
Interpret(sock, settings, cap) ==
    /\ sockets[sock].connected
    /\ Len(requests) < cap
    /\ LET r == Len(requests) + 1
           w == [World EXCEPT !.sess[r].socket = sock, !.sess[r].settings = settings]
       IN  IF sockets[sock].loggedIn
           THEN Commit(runInterpreter(w, r, TRUE, FALSE))
           ELSE Commit(processGuestQueue(
                    [emit(w, r, "queue_update") EXCEPT
                        !.sess[r].queuePos = Len(w.q) + 1,
                        !.q = Append(@, r)]))
    /\ requests' = Append(requests, [socket |-> sock, settings |-> settings])
    /\ UNCHANGED <<sockets, now, nevents, limiterVars, evalVars>>

\* the client's 'stopExecution'
StopExecution(sock) ==
    /\ sockets[sock].connected
    /\ listeners(World, sock) # <<>>
    /\ Commit(stopAll(World, listeners(World, sock)))
    /\ UNCHANGED <<requests, sockets, now, nevents, limiterVars, evalVars>>

\* the socket's 'disconnect'
Disconnect(sock) ==
    /\ sockets[sock].connected
    /\ sockets' = [sockets EXCEPT ![sock].connected = FALSE]
    /\ Commit(disconnectAll(World, listeners(World, sock)))
    /\ UNCHANGED <<requests, now, nevents, limiterVars, evalVars>>

\* the client's 'keyDown', 'keyUp', 'mouseMove', ...
InputEvent(sock, name, cap) ==
    /\ sockets[sock].connected
    /\ nevents < cap
    /\ listeners(World, sock) # <<>>
    /\ nevents' = nevents + 1
    /\ Commit(eventAll(World, listeners(World, sock), name))
    /\ UNCHANGED <<requests, sockets, now, limiterVars, evalVars>>

\* the timer set by runInterpreter is due. clocked: the specification measures
\* time (Tick); otherwise the other steps take any time and the timer may run
\* at any moment after it was set.
Timeout(r, clocked) ==
    /\ sess[r].timeout = "armed"
    /\ clocked => now >= sess[r].deadline
    /\ Commit(onTimeout(World, r))
    /\ UNCHANGED <<requests, sockets, now, nevents, limiterVars, evalVars>>

\* time passes until the next timer is due: only the timers read the clock
armed == {r \in Reqs : sess[r].timeout = "armed"}
Tick ==
    /\ armed # {}
    /\ \A r \in armed : now < sess[r].deadline
    /\ \E r \in armed :
          /\ \A x \in armed : sess[r].deadline <= sess[x].deadline
          /\ now' = sess[r].deadline
    /\ UNCHANGED <<isGuestRunnerActive, guestQueue, requests, sockets, sess, wk, order,
                   nevents, limiterVars, evalVars>>

IsEvent(m) == m \in {"ERROR_EVT", "EXIT"}

\* worker.on('message') for the oldest message of the worker
HostMessage(r) ==
    /\ wk[r].chan # <<>>
    /\ ~IsEvent(Head(wk[r].chan))
    /\ Commit(onMessage([World EXCEPT !.wk[r].chan = Tail(@)], r, Head(wk[r].chan)))
    /\ UNCHANGED <<requests, sockets, now, nevents, limiterVars, evalVars>>

\* worker.on('error')
HostError(r) ==
    /\ wk[r].chan # <<>>
    /\ Head(wk[r].chan) = "ERROR_EVT"
    /\ Commit(onError([World EXCEPT !.wk[r].chan = Tail(@)], r))
    /\ UNCHANGED <<requests, sockets, now, nevents, limiterVars, evalVars>>

\* worker.on('exit')
HostExit(r) ==
    /\ wk[r].chan # <<>>
    /\ Head(wk[r].chan) = "EXIT"
    /\ Commit(onExit([World EXCEPT !.wk[r].chan = Tail(@)], r))
    /\ UNCHANGED <<requests, sockets, now, nevents, limiterVars, evalVars>>

(***************************************************************************)
(* Actions: the worker.                                                    *)
(***************************************************************************)
WorkerStep(r, w) ==
    /\ wk' = [wk EXCEPT ![r] = w]
    /\ UNCHANGED <<isGuestRunnerActive, guestQueue, requests, sockets, sess, order, now,
                   nevents, limiterVars, evalVars>>

\* interpreter-worker.js 46-81: running = true, the limiter of the run
run(w, settings) ==
    [w EXCEPT !.st = "running", !.running = TRUE,
              !.resourceLimiter = newResourceLimiter(hostLimits(settings))]

\* interpreter-worker.js 40-84: the 'run' message: running = true,
\* state = getInitialState(callbacks, settings), interpret(code, state) starts
WorkerRun(r) ==
    /\ wk[r].st = "idle"
    /\ WorkerStep(r, run(wk[r], sess[r].settings))

\* the script's next top-level statement
WorkerStmt(r, stmt, env, cap) ==
    /\ wk[r].st = "running"
    /\ wk[r].steps < cap
    /\ WorkerStep(r, execStmt(wk[r], stmt, env))

\* the timer of callbacks.wait resolves the promise the script awaits
WorkerResume(r) ==
    /\ wk[r].st = "waiting"
    /\ WorkerStep(r, [wk[r] EXCEPT !.st = "running"])

\* the script has no more statements: interpret() returns "OK"
WorkerReturn(r) ==
    /\ wk[r].st = "running"
    /\ WorkerStep(r, runReturned(wk[r], "OK"))

\* an 'event' message is handled when the worker's event loop is free
WorkerEvent(r, env) ==
    /\ wk[r].st \in {"waiting", "awaiting", "finished"}
    /\ wk[r].inbox # <<>>
    /\ WorkerStep(r, onEventMessage(wk[r], env))

\* interpreter.js interpret: the statements of a script in turn, up to the
\* first that ends the run or waits
RECURSIVE interpret(_, _)
interpret(w, script) ==
    IF w.st # "running" THEN w
    ELSE IF script = <<>> THEN runReturned(w, "OK")
    ELSE interpret(execStmt(w, Head(script), "ok"), Tail(script))

\* the 'run' message for a script that does not wait: the handler runs to its
\* end before the worker's event loop takes anything else
WorkerScript(r, script) ==
    /\ wk[r].st = "idle"
    /\ WorkerStep(r, interpret(run(wk[r], sess[r].settings), script))

\* the worker thread dies of an uncaught error while it starts or runs the
\* script: 'error', then 'exit'
WorkerCrash(r) ==
    /\ wk[r].st \in {"idle", "running", "waiting", "awaiting"}
    /\ WorkerStep(r, [wk[r] EXCEPT !.st = "dead", !.inbox = <<>>,
                                   !.chan = @ \o <<"ERROR_EVT", "EXIT">>])

(***************************************************************************)
(* Actions: a resource limiter on its own.                                 *)
(***************************************************************************)
LimiterCall(env) ==
    /\ Len(calls) < MaxCalls
    /\ LET inc == incrementCommand(resourceLimiter, env)
       IN  /\ resourceLimiter' = inc.limiter
           /\ calls' = Append(calls, inc.thrown)
    /\ UNCHANGED <<hostVars, evalVars>>

\* reset()
LimiterReset ==
    /\ calls # <<>>
    /\ resourceLimiter' = [resourceLimiter EXCEPT !.commandCount = 0]
    /\ calls' = <<>>
    /\ UNCHANGED <<hostVars, evalVars>>

(***************************************************************************)
(* Evaluator (evaluator.js): values, frames and function values.           *)
(***************************************************************************)
\* A value: t is its JavaScript type; n the number, the truth value (1, 0) or
\* the index of a function value in machine.funcs; els the elements of an
\* array or object; txt the pieces of a string.
Value(t, n, els, txt) == [t |-> t, n |-> n, els |-> els, txt |-> txt]
Undefined == Value("undefined", 0, <<>>, <<>>)
\* marks a name a frame has no property for
Absent == Value("absent", 0, <<>>, <<>>)
Num(k) == Value("number", k, <<>>, <<>>)
Bool(b) == Value("boolean", IF b THEN 1 ELSE 0, <<>>, <<>>)
Str(txt) == Value("string", 0, <<>>, txt)
Arr(els) == Value("array", 0, els, <<>>)
Func(id) == Value("function", id, <<>>, <<>>)
\* console.log, as the variable log of the global frame
BuiltinLog == Value("builtin", 1, <<>>, <<>>)
\* a method every object inherits from Object.prototype
ProtoFunction == Value("builtin", 2, <<>>, <<>>)

\* the names of the scripts drawn here
Names == {"x", "y", "c", "i", "j", "f", "g", "h", "v", "log", "toString"}
\* the names `in` finds in every frame, since a frame is a plain object
ProtoNames == {"toString"}

EmptyFrame == [n \in Names |-> Absent]
\* state.variables: the global frame, with console.log as log
GlobalFrame == [EmptyFrame EXCEPT !["log"] = BuiltinLog]
\* frames: every scope object created so far (env holds indices into it);
\* funcs: every function value created so far; out: the arguments logged;
\* tick: the turn of the microtask queue the evaluation is in; at: the turn in
\* which each element of out was logged
NoMachine == [frames |-> <<GlobalFrame>>, funcs |-> <<>>, out |-> <<>>, tick |-> 0, at |-> <<>>]

\* evaluator.js 20, 27: name in env[i]
has(frame, name) == frame[name] # Absent \/ name \in ProtoNames

\* env[i][name]
read(frame, name) == IF frame[name] # Absent THEN frame[name] ELSE ProtoFunction

\* the innermost frame of env in which the name is found, 0 if in none
holder(m, env, name) ==
    LET hits == {i \in 1..Len(env) : has(m.frames[env[i]], name)}
    IN  IF hits = {} THEN 0 ELSE CHOOSE i \in hits : \A j \in hits : j <= i

\* evaluator.js 18-23 getVar
getVar(m, env, name) ==
    LET i == holder(m, env, name)
    IN  IF i = 0 THEN Undefined ELSE read(m.frames[env[i]], name)

\* evaluator.js 25-33 setVar
setVar(m, env, name, value) ==
    LET i == holder(m, env, name)
        target == IF i = 0 THEN env[Len(env)] ELSE env[i]
    IN  [m EXCEPT !.frames[target][name] = value]

\* a new scope object { [id]: val } or {} with the parameters; returns its index
newFrame(m, ids, vals) ==
    LET frame == [n \in Names |->
                    IF \E k \in 1..Len(ids) : ids[k] = n
                    THEN LET k == CHOOSE k \in 1..Len(ids) :
                                     ids[k] = n /\ \A q \in 1..Len(ids) : ids[q] = n => q <= k
                         IN  IF k <= Len(vals) THEN vals[k] ELSE Undefined
                    ELSE Absent]
    IN  [m |-> [m EXCEPT !.frames = Append(@, frame)], id |-> Len(m.frames) + 1]

\* JavaScript truthiness: if (v), l && r, l || r, !v
truthy(v) ==
    CASE v.t = "undefined" -> FALSE
      [] v.t = "number" -> v.n # 0
      [] v.t = "boolean" -> v.n = 1
      [] v.t = "string" -> v.txt # <<>>
      [] OTHER -> TRUE

\* String(result), as the pieces of the text
String(v) ==
    CASE v.t = "undefined" -> <<"undefined">>
      [] v.t = "number" -> <<ToString(v.n)>>
      [] v.t = "boolean" -> IF v.n = 1 THEN <<"true">> ELSE <<"false">>
      [] v.t = "string" -> v.txt
      [] v.t = "array" -> <<"[array]">>
      [] OTHER -> <<"[function]">>

(***************************************************************************)
(* Evaluator: AST nodes, as parser.js builds them.                         *)
(***************************************************************************)
Lit(k) == [type |-> "Literal", value |-> Num(k), pieces |-> <<>>]
Var(name) == [type |-> "Variable", name |-> name]
Assign(name, op, expr) == [type |-> "Assignment", id |-> name, op |-> op, expr |-> expr]
ExprStmt(expr) == [type |-> "ExprStmt", expr |-> expr]
Return(expr) == [type |-> "Return", expr |-> expr]
Break == [type |-> "Break"]
Continue == [type |-> "Continue"]
Function(name, ps, body) == [type |-> "Function", name |-> name, params |-> ps, body |-> body]
If(cond, thenBranch, elseBranch) ==
    [type |-> "If", cond |-> cond, thenBranch |-> thenBranch, elseBranch |-> elseBranch]
While(cond, body) == [type |-> "While", cond |-> cond, body |-> body]
For(id, iterable, body) == [type |-> "For", id |-> id, iterable |-> iterable, body |-> body]
ForRange(id, n, body) == [type |-> "ForRange", id |-> id, count |-> n, body |-> body]
Array(elements) == [type |-> "Array", elements |-> elements]
Property(key, value) == [key |-> key, value |-> value]
Object(properties) == [type |-> "Object", properties |-> properties]
Call(callee, args) == [type |-> "Call", callee |-> callee, args |-> args]
Unary(op, expr) == [type |-> "Unary", op |-> op, expr |-> expr]
Binary(op, left, right) == [type |-> "Binary", op |-> op, left |-> left, right |-> right]
\* a string literal: its text between the ${}, and each ${expr} with the node
\* parse(tokenize(expr))[0] gives, if the text parses; a text is a sequence
\* of pieces of text
Text(s) == [match |-> FALSE, text |-> s, parses |-> TRUE, expr |-> Break]
Match(s, expr) == [match |-> TRUE, text |-> s, parses |-> TRUE, expr |-> expr]
NoParse(s) == [match |-> TRUE, text |-> s, parses |-> FALSE, expr |-> Break]
StrLit(pieces) == [type |-> "Literal", value |-> Str(<<>>), pieces |-> pieces]

\* what evalNode ends with: the machine, what was thrown ("none" if it
\* returned; "Return", "Break", "Continue" or "Error") and the value
Res(m, sig, v) == [m |-> m, sig |-> sig, v |-> v]

\* await: the caller goes on in the turn of the microtask queue after the one
\* in which the awaited promise was settled (or the awaited value was given)
awaited(r) == [r EXCEPT !.m.tick = @ + 1]

\* evaluator.js 356-385: the operators on the two operand values
\* the quotient of two integers: a number if it is whole, else the reduced
\* fraction; x / 0 is Infinity or NaN
RECURSIVE gcd(_, _)
gcd(a, b) == IF b = 0 THEN a ELSE gcd(b, a % b)
abs(a) == IF a < 0 THEN 0 - a ELSE a
quotient(a, b) ==
    IF b = 0 THEN Value(IF a = 0 THEN "NaN" ELSE "Infinity", 0, <<>>, <<>>)
    ELSE LET d == gcd(abs(a), abs(b))
             sign == IF (a < 0) # (b < 0) THEN 0 - 1 ELSE 1
         IN  IF abs(b) = d THEN Value("number", sign * (abs(a) \div d), <<>>, <<>>)
             ELSE Value("fraction", sign * (abs(a) \div d), <<abs(b) \div d>>, <<>>)

binaryOp(op, l, r) ==
    LET nums == l.t = "number" /\ r.t = "number"
        NaN == Value("NaN", 0, <<>>, <<>>)
    IN  CASE op = "+" -> IF nums THEN Num(l.n + r.n)
                         ELSE IF l.t = "string" \/ r.t = "string"
                              THEN Str(String(l) \o String(r))
                              ELSE NaN
          [] op = "-" -> IF nums THEN Num(l.n - r.n) ELSE NaN
          [] op = "*" -> IF nums THEN Num(l.n * r.n) ELSE NaN
          [] op = "/" -> IF nums THEN quotient(l.n, r.n) ELSE NaN
          [] op = "==" -> Bool(l.t # "array" /\ l = r)
          [] op = "!=" -> Bool(~(l.t # "array" /\ l = r))
          [] op = "<" -> Bool(nums /\ l.n < r.n)
          [] op = ">" -> Bool(nums /\ l.n > r.n)
          [] op = "<=" -> Bool(nums /\ l.n <= r.n)
          [] op = ">=" -> Bool(nums /\ l.n >= r.n)
          [] op = "and" -> IF truthy(l) THEN r ELSE l
          [] op = "or" -> IF truthy(l) THEN l ELSE r

\* evaluator.js 84-87: the operator a shorthand assignment applies
compoundOp(op) ==
    CASE op = "+=" -> "+" [] op = "-=" -> "-" [] op = "*=" -> "*" [] op = "/=" -> "/"

\* the right operand evaluated before the left one
binaryOperandsRightFirst(node) == <<node.right, node.left>>

\* evaluator.js 354-355: the operands in the order they are evaluated
binaryOperands(node) == <<node.left, node.right>>

\* evaluator.js 329-333: the callee and the arguments in the order they are
\* evaluated
callParts(node) == <<node.callee>> \o node.args

\* a function value that keeps copies of the frames of env as they are when
\* it is created
defineFunctionCopy(m, node, env) ==
    LET id == Len(m.funcs) + 1
        k == Len(m.frames)
        copies == [i \in 1..Len(env) |-> m.frames[env[i]]]
        m1 == [m EXCEPT !.frames = @ \o copies,
                        !.funcs = Append(@, [env |-> [i \in 1..Len(env) |-> k + i],
                                             params |-> node.params, body |-> node.body])]
    IN  Res(IF node.name # "" THEN setVar(m1, env, node.name, Func(id)) ELSE m1,
            "none", Func(id))

\* evaluator.js 117-154 case "Function": the function value keeps env (the
\* frames themselves, not copies); a named one is assigned to its name
defineFunction(m, node, env) ==
    LET id == Len(m.funcs) + 1
        m1 == [m EXCEPT !.funcs = Append(@, [env |-> env, params |-> node.params,
                                              body |-> node.body])]
    IN  Res(IF node.name # "" THEN setVar(m1, env, node.name, Func(id)) ELSE m1,
            "none", Func(id))

\* a loop that lets break and continue through to the loop around it
loopCatchRethrow(sig) ==
    CASE sig = "none" -> "next"
      [] OTHER -> "throw"

\* evaluator.js 217-221, 233-237, 249-253: what a loop does with what an
\* iteration of its body threw
loopCatch(sig) ==
    CASE sig = "none" -> "next"
      [] sig = "Break" -> "break"
      [] sig = "Continue" -> "continue"
      [] OTHER -> "throw"

\* the concatenation of a sequence of sequences
RECURSIVE flatten(_)
flatten(seqs) == IF seqs = <<>> THEN <<>> ELSE Head(seqs) \o flatten(Tail(seqs))

\* evaluator.js 46-53: the outcome of the callback of one ${expr}: the text
\* to put in its place; the catch makes it the match itself
matchResult(piece, parsed, r) ==
    IF parsed /\ r.sig = "none"
    THEN [match |-> piece.text, result |-> String(r.v)]
    ELSE [match |-> piece.text, result |-> piece.text]

\* what String.prototype.replace makes of a replacement string: $$ stands
\* for a dollar sign and $& for the matched text
substitution(match, replacement) ==
    flatten([k \in 1..Len(replacement) |->
                CASE replacement[k] = "$$" -> <<"$">>
                  [] replacement[k] = "$&" -> match
                  [] OTHER -> <<replacement[k]>>])

\* evaluator.js 58 result.replace(match, replacement): the first occurrence
\* of the string match replaced
replace(txt, match, replacement) ==
    LET hits == {i \in 1..(Len(txt) - Len(match) + 1) :
                    SubSeq(txt, i, i + Len(match) - 1) = match}
    IN  IF hits = {} THEN txt
        ELSE LET i == CHOOSE i \in hits : \A j \in hits : i <= j
             IN  SubSeq(txt, 1, i - 1) \o substitution(match, replacement)
                 \o SubSeq(txt, i + Len(match), Len(txt))

RECURSIVE replaceAll(_, _)
replaceAll(txt, results) ==
    IF results = <<>> THEN txt
    ELSE replaceAll(replace(txt, Head(results).match, Head(results).result), Tail(results))

(***************************************************************************)
(* Evaluator: evalNode.                                                    *)
(***************************************************************************)
RECURSIVE evalNode(_, _, _)
RECURSIVE evalList(_, _, _, _)
RECURSIVE evalBlock(_, _, _)
RECURSIVE whileLoop(_, _, _)
RECURSIVE forLoop(_, _, _, _)
RECURSIVE rangeLoop(_, _, _, _, _)
RECURSIVE callFunction(_, _, _)
RECURSIVE interpolateMatches(_, _, _, _, _, _)

\* nodes evaluated one after the other, each awaited before the next; vs
\* collects the values; stops at the first that throws
evalList(nodes, env, m, vs) ==
    IF nodes = <<>> THEN [m |-> m, sig |-> "none", v |-> Undefined, vs |-> vs]
    ELSE LET r == evalNode(Head(nodes), env, m)
         IN  IF r.sig # "none" THEN [m |-> r.m, sig |-> r.sig, v |-> r.v, vs |-> vs]
             ELSE evalList(Tail(nodes), env, r.m, Append(vs, r.v))

\* for (const stmt of body) await evalNode(stmt, ...)
evalBlock(stmts, env, m) ==
    IF stmts = <<>> THEN Res(m, "none", Undefined)
    ELSE LET r == evalNode(Head(stmts), env, m)
         IN  IF r.sig # "none" THEN r ELSE evalBlock(Tail(stmts), env, r.m)

\* evaluator.js 212-224 case "While"
whileLoop(node, env, m) ==
    LET c == evalNode(node.cond, env, m)
    IN  IF c.sig # "none" THEN c
        ELSE IF ~truthy(c.v) THEN Res(c.m, "none", Undefined)
        ELSE LET b == evalBlock(node.body, env, c.m)
                 todo == loopCatch(b.sig)
             IN  IF todo = "throw" THEN b
                 ELSE IF todo = "break" THEN Res(b.m, "none", Undefined)
                 ELSE whileLoop(node, env, b.m)

\* evaluator.js 228-238 case "For": the values left to iterate over
forLoop(node, env, m, vals) ==
    IF vals = <<>> THEN Res(m, "none", Undefined)
    ELSE LET nf == newFrame(m, <<node.id>>, <<Head(vals)>>)
             b == evalBlock(node.body, Append(env, nf.id), nf.m)
             todo == loopCatch(b.sig)
         IN  IF todo = "throw" THEN b
             ELSE IF todo = "break" THEN Res(b.m, "none", Undefined)
             ELSE forLoop(node, env, b.m, Tail(vals))

\* evaluator.js 244-254 case "ForRange": for (idx = 0; idx < count; idx++)
rangeLoop(node, env, m, idx, count) ==
    IF ~(idx < count) THEN Res(m, "none", Undefined)
    ELSE LET nf == newFrame(m, <<node.id>>, <<Num(idx)>>)
             b == evalBlock(node.body, Append(env, nf.id), nf.m)
             todo == loopCatch(b.sig)
         IN  IF todo = "throw" THEN b
             ELSE IF todo = "break" THEN Res(b.m, "none", Undefined)
             ELSE rangeLoop(node, env, b.m, idx + 1, count)

\* evaluator.js 119-137: a call of a function value
callFunction(m, id, args) ==
    LET func == m.funcs[id]
        nf == newFrame(m, func.params, args)
        b == evalBlock(func.body, Append(func.env, nf.id), nf.m)
    IN  IF b.sig = "Return" THEN Res(b.m, "none", b.v)
        ELSE IF b.sig = "none" THEN Res(b.m, "none", Undefined)
        ELSE b

\* evaluator.js 45-54: the callbacks of the matches. matches.map calls every
\* callback in the turn interpolate is called in (start); each runs to its
\* first await and goes on, turn by turn, beside the others. last: the turn
\* in which the last callback has returned. The ${} of the strings drawn here
\* assign no variable, so the callbacks meet in the log only.
interpolateMatches(pieces, env, m, results, start, last) ==
    IF pieces = <<>> THEN [m |-> m, results |-> results, last |-> last]
    ELSE LET piece == Head(pieces)
         IN  IF ~piece.match
             THEN interpolateMatches(Tail(pieces), env, m, results, start, last)
             ELSE IF ~piece.parses
             THEN interpolateMatches(Tail(pieces), env, m,
                      Append(results, matchResult(piece, FALSE, Res(m, "Error", Undefined))),
                      start, last)
             ELSE LET r == evalNode(piece.expr, env, [m EXCEPT !.tick = start])
                  IN  interpolateMatches(Tail(pieces), env, r.m,
                          Append(results, matchResult(piece, TRUE, r)), start,
                          IF r.m.tick > last THEN r.m.tick ELSE last)

\* the log in the order of the turns: the entries after the first `from`,
\* those of one turn in the order of their callbacks
inTurnOrder(m, from) ==
    LET n == Len(m.out)
        \* the place of entry i among the entries from + 1 .. n
        place(i) == Cardinality({j \in (from + 1)..n :
                        m.at[j] < m.at[i] \/ (m.at[j] = m.at[i] /\ j <= i)})
        entry(k) == CHOOSE i \in (from + 1)..n : place(i) = k - from
    IN  [m EXCEPT !.out = [k \in 1..n |-> IF k <= from THEN m.out[k] ELSE m.out[entry(k)]],
                  !.at = [k \in 1..n |-> IF k <= from THEN m.at[k] ELSE m.at[entry(k)]]]

\* evaluator.js 36-61 interpolate: without a match the string is returned at
\* once; else Promise.all is settled in the turn after the last callback has
\* returned and awaited in the next
interpolate(pieces, env, m) ==
    LET str == flatten([i \in 1..Len(pieces) |-> pieces[i].text])
        done == interpolateMatches(pieces, env, m, <<>>, m.tick, m.tick)
        merged == inTurnOrder(done.m, Len(m.out))
    IN  IF \A i \in 1..Len(pieces) : ~pieces[i].match THEN Res(m, "none", Str(str))
        ELSE Res([merged EXCEPT !.tick = done.last + 2], "none",
                 Str(replaceAll(str, done.results)))

\* the call itself: console.log, an inherited method or a function value
apply(m, callee, args) ==
    IF callee.t = "builtin" /\ callee.n = 1
    THEN Res([m EXCEPT !.out = Append(@, IF args = <<>> THEN Undefined ELSE args[1]),
                       !.at = Append(@, m.tick)],
             "none", Undefined)
    ELSE IF callee.t = "builtin" THEN Res(m, "none", Str(<<"[object Undefined]">>))
    ELSE IF callee.t = "function" THEN callFunction(m, callee.n, args)
    ELSE Res(m, "Error", Undefined)

\* evaluator.js 16-390 evalNode; every call of evalNode is awaited
evalNode(node, env, m) ==
  awaited(
    CASE node.type = "Assignment" ->
            LET r == evalNode(node.expr, env, m)
                final == IF node.op = "=" THEN r.v
                         ELSE binaryOp(compoundOp(node.op), getVar(r.m, env, node.id), r.v)
            IN  IF r.sig # "none" THEN r
                ELSE IF node.op \notin {"=", "+=", "-=", "*=", "/="} THEN Res(r.m, "Error", Undefined)
                ELSE Res(setVar(r.m, env, node.id, final), "none", final)
      [] node.type = "ExprStmt" -> evalNode(node.expr, env, m)
      [] node.type = "Return" ->
            LET r == evalNode(node.expr, env, m)
            IN  IF r.sig # "none" THEN r ELSE Res(r.m, "Return", r.v)
      [] node.type = "Break" -> Res(m, "Break", Undefined)
      [] node.type = "Continue" -> Res(m, "Continue", Undefined)
      [] node.type = "Function" -> defineFunction(m, node, env)
      [] node.type = "If" ->
            LET c == evalNode(node.cond, env, m)
            IN  IF c.sig # "none" THEN c
                ELSE LET b == evalBlock(IF truthy(c.v) THEN node.thenBranch
                                        ELSE node.elseBranch, env, c.m)
                     IN  IF b.sig # "none" THEN b ELSE Res(b.m, "none", Undefined)
      [] node.type = "While" -> whileLoop(node, env, m)
      [] node.type = "For" ->
            LET r == evalNode(node.iterable, env, m)
            IN  IF r.sig # "none" THEN r
                ELSE IF r.v.t = "array" THEN forLoop(node, env, r.m, r.v.els)
                ELSE Res(r.m, "none", Undefined)
      [] node.type = "ForRange" ->
            LET r == evalNode(node.count, env, m)
            IN  IF r.sig # "none" THEN r
                ELSE rangeLoop(node, env, r.m, 0, IF r.v.t = "number" THEN r.v.n ELSE 0)
      [] node.type = "Literal" ->
            IF node.value.t = "string" THEN awaited(interpolate(node.pieces, env, m))
            ELSE Res(m, "none", node.value)
      [] node.type = "Array" ->
            LET r == evalList(node.elements, env, m, <<>>)
            IN  IF r.sig # "none" THEN Res(r.m, r.sig, r.v) ELSE Res(r.m, "none", Arr(r.vs))
      [] node.type = "Object" ->
            LET r == evalList([i \in 1..Len(node.properties) |-> node.properties[i].value],
                              env, m, <<>>)
            IN  IF r.sig # "none" THEN Res(r.m, r.sig, r.v)
                ELSE Res(r.m, "none", Value("object", 0, r.vs, <<>>))
      [] node.type = "Variable" -> Res(m, "none", getVar(m, env, node.name))
      [] node.type = "Call" ->
            LET r == evalList(callParts(node), env, m, <<>>)
            IN  IF r.sig # "none" THEN Res(r.m, r.sig, r.v)
                ELSE IF Head(r.vs).t \notin {"builtin", "function"}
                THEN apply(r.m, Head(r.vs), Tail(r.vs))
                ELSE awaited(apply(r.m, Head(r.vs), Tail(r.vs)))
      [] node.type = "Unary" ->
            LET r == evalNode(node.expr, env, m)
            IN  IF r.sig # "none" THEN r
                ELSE IF node.op = "-" THEN Res(r.m, "none", binaryOp("-", Num(0), r.v))
                ELSE Res(r.m, "none", Bool(~truthy(r.v)))
      [] node.type = "Binary" ->
            LET r == evalList(binaryOperands(node), env, m, <<>>)
            IN  IF r.sig # "none" THEN Res(r.m, r.sig, r.v)
                ELSE Res(r.m, "none", binaryOp(node.op, r.vs[1], r.vs[2]))
      [] OTHER -> Res(m, "Error", Undefined))

(***************************************************************************)
(* Evaluator: the scripts it is run on.                                    *)
(***************************************************************************)
\* log(e), as a statement and as the call
LogCall(e) == Call(Var("log"), <<e>>)
Log(e) == ExprStmt(LogCall(e))
\* function f(v) log(v); return v end
DefF == Function("f", <<"v">>, <<Log(Var("v")), Return(Var("v"))>>)
\* f(k)
F(k) == Call(Var("f"), <<Lit(k)>>)

LoopKinds == {"While", "For", "ForRange"}
Jumps == {"Break", "Continue"}

\* a loop of the given kind whose body runs with id = 0, 1, ..., n - 1
Loop(kind, id, n, body) ==
    CASE kind = "While" ->
            <<Assign(id, "=", Unary("-", Lit(1))),
              While(Binary("<", Var(id), Lit(n - 1)), <<Assign(id, "+=", Lit(1))>> \o body)>>
      [] kind = "For" ->
            <<For(id, Array([k \in 1..n |-> Lit(k - 1)]), body)>>
      [] kind = "ForRange" ->
            <<ForRange(id, Lit(n), body)>>

\* two nested loops; the inner one jumps (break or continue) when j = at
LoopsScript(p) ==
    Loop(p.outer, "i", p.n,
         <<Log(Array(<<Lit(1), Var("i")>>))>>
         \o Loop(p.inner, "j", p.k,
                 <<Log(Array(<<Lit(2), Var("i"), Var("j")>>)),
                   If(Binary("==", Var("j"), Lit(p.at)),
                      <<IF p.jump = "Break" THEN Break ELSE Continue>>, <<>>),
                   Log(Array(<<Lit(3), Var("i"), Var("j")>>))>>)
         \o <<Log(Array(<<Lit(4), Var("i")>>))>>)

\* x = f(a) and f(b), x = f(a) or f(b)
LogicScript(p) ==
    <<DefF, Assign("x", "=", Binary(p.op, F(p.a), F(p.b)))>>

\* function g(a, b) return a end; function h(v) log(v); return g end
DefG == Function("g", <<"x", "y">>, <<Return(Var("x"))>>)
DefH == Function("h", <<"v">>, <<Log(Var("v")), Return(Var("g"))>>)

\* scripts whose calls of f are numbered 1, 2, ... in source order
OrderScript(p) ==
    <<DefF, DefG, DefH>> \o
    (CASE p.shape = "binary" ->
             <<Assign("x", "=", Binary("+", F(1), Binary("*", F(2), F(3)))),
               Assign("y", "=", Binary("*", Binary("+", F(4), F(5)), F(6)))>>
       [] p.shape = "call" ->
             <<Assign("x", "=", Call(Call(Var("h"), <<Lit(1)>>), <<F(2), F(3)>>)),
               Assign("y", "=", Call(Var("g"), <<F(4), Call(Var("g"), <<F(5), F(6)>>)>>))>>
       [] p.shape = "array" ->
             <<Assign("x", "=", Array(<<F(1), Array(<<F(2), F(3)>>), F(4)>>)),
               Assign("y", "=", Array(<<F(5), F(6)>>))>>
       [] p.shape = "object" ->
             <<Assign("x", "=", Object(<<Property("a", F(1)), Property("b", F(2)),
                                         Property("c", F(3))>>)),
               Assign("y", "=", Object(<<Property("c", Array(<<F(4), F(5)>>)),
                                         Property("d", F(6))>>))>>
       [] p.shape = "block" ->
             <<Function("c", <<>>, <<ExprStmt(F(1)),
                                     If(F(2), <<ExprStmt(F(3)), ExprStmt(F(4))>>, <<>>),
                                     ExprStmt(F(5))>>),
               ExprStmt(Call(Var("c"), <<>>)),
               ExprStmt(F(6))>>)

\* name = 2 in a function at the given depth; name = 1 before, in the frame
\* given by declared ("global", "outer": the enclosing function's, "none")
ScopeScript(p) ==
    LET decl == <<Assign(p.name, "=", Lit(1))>>
        defF == Function("f", <<>>, <<Assign(p.name, "=", Lit(2))>>)
        callF == ExprStmt(Call(Var("f"), <<>>))
    IN  (IF p.declared = "global" THEN decl ELSE <<>>) \o
        (IF p.depth = 1 THEN <<defF, callF>>
         ELSE <<Function("g", <<>>,
                         (IF p.declared = "outer" THEN decl ELSE <<>>) \o <<defF, callF>>),
                ExprStmt(Call(Var("g"), <<>>))>>)

\* a function that reads and changes a variable of its defining frames
ClosureScript(p) ==
    IF p.shape = "global" THEN
        \* x = a; function g() log(x); x = x + 10 end; x = b; g(); log(x); g()
        <<Assign("x", "=", Lit(p.a)),
          Function("g", <<>>, <<Log(Var("x")), Assign("x", "+=", Lit(10))>>),
          Assign("x", "=", Lit(p.b)),
          ExprStmt(Call(Var("g"), <<>>)),
          Log(Var("x")),
          ExprStmt(Call(Var("g"), <<>>))>>
    ELSE
        \* function h(c) function g() c = c + 1; log(c) end; c = c + b; return g end
        \* x = h(a); y = h(a); x(); x(); y()
        <<Function("h", <<"c">>,
                   <<Function("g", <<>>, <<Assign("c", "+=", Lit(1)), Log(Var("c"))>>),
                     Assign("c", "+=", Lit(p.b)),
                     Return(Var("g"))>>),
          Assign("x", "=", Call(Var("h"), <<Lit(p.a)>>)),
          Assign("y", "=", Call(Var("h"), <<Lit(p.a)>>)),
          ExprStmt(Call(Var("x"), <<>>)),
          ExprStmt(Call(Var("x"), <<>>)),
          ExprStmt(Call(Var("y"), <<>>))>>

\* the ${} expressions of the strings: one that evaluates and the ways to fail
ExprKinds ==
    {"ok", "undefined", "noparse", "notfunction", "throws", "break", "dollars", "matched"}
InterpPiece(kind) ==
    CASE kind = "ok" -> Match(<<"${f(1)}">>, F(1))
      [] kind = "undefined" -> Match(<<"${y}">>, Var("y"))
      [] kind = "noparse" -> NoParse(<<"${1 +}">>)
      [] kind = "notfunction" -> Match(<<"${x(1)}">>, Call(Var("x"), <<Lit(1)>>))
      [] kind = "throws" -> Match(<<"${g()}">>, Call(Var("g"), <<>>))
      [] kind = "break" -> Match(<<"${break}">>, Break)
      [] kind = "dollars" -> NoParse(<<"${", "$$", "}">>)
      [] kind = "matched" -> NoParse(<<"${", "$&", "}">>)

\* x = 5; function g() log(7); x(1) end; c = "a${..}b${..}"; log(8)
InterpScript(p) ==
    <<DefF,
      Assign("x", "=", Lit(5)),
      Function("g", <<>>, <<Log(Lit(7)), ExprStmt(Call(Var("x"), <<Lit(1)>>))>>),
      Assign("c", "=", StrLit(<<Text(<<"a">>), InterpPiece(p.e1), Text(<<"b">>), InterpPiece(p.e2)>>)),
      Log(Lit(8))>>

\* x = a; function h() [x = b] return c end; x op= h()
CompoundScript(p) ==
    <<Assign("x", "=", Lit(p.a)),
      Function("h", <<>>, (IF p.touch THEN <<Assign("x", "=", Lit(p.b))>> ELSE <<>>)
                          \o <<Return(Lit(p.c))>>),
      Assign("x", p.op, Call(Var("h"), <<>>))>>

\* the ${} expressions of the strings with two segments; the calls of f are
\* numbered from k in source order
SegmentKinds == {"plain", "call", "sum", "nested"}
SegmentCalls(kind) == CASE kind = "plain" -> 0 [] kind = "sum" -> 2 [] OTHER -> 1
Segment(kind, k) ==
    CASE kind = "plain" -> Match(<<"${x}">>, Var("x"))
      [] kind = "call" -> Match(<<"${f(k)}">>, F(k))
      [] kind = "sum" -> Match(<<"${f(k) + f(k+1)}">>, Binary("+", F(k), F(k + 1)))
      [] kind = "nested" -> Match(<<"${0 + (0 + f(k))}">>,
                                  Binary("+", Lit(0), Binary("+", Lit(0), F(k))))

\* x = 5; c = "a${..}b${..}"
SegmentsScript(p) ==
    <<DefF,
      Assign("x", "=", Lit(5)),
      Assign("c", "=", StrLit(<<Text(<<"a">>), Segment(p.s1, 1), Text(<<"b">>),
                                Segment(p.s2, 1 + SegmentCalls(p.s1))>>))>>

Script(p) ==
    CASE p.fam = "loops" -> LoopsScript(p)
      [] p.fam = "segments" -> SegmentsScript(p)
      [] p.fam = "compound" -> CompoundScript(p)
      [] p.fam = "logic" -> LogicScript(p)
      [] p.fam = "order" -> OrderScript(p)
      [] p.fam = "scope" -> ScopeScript(p)
      [] p.fam = "closure" -> ClosureScript(p)
      [] p.fam = "interp" -> InterpScript(p)
      [] OTHER -> <<>>

(***************************************************************************)
(* Actions: the evaluator.                                                 *)
(***************************************************************************)
\* the next top-level statement of the script is evaluated in the global
\* frame; what it throws ends the run
EvalStatement ==
    /\ status = "running"
    /\ pc <= Len(Script(params))
    /\ LET r == evalNode(Script(params)[pc], <<1>>, machine)
       IN  /\ machine' = r.m
           /\ pc' = pc + 1
           /\ status' = IF r.sig # "none" THEN "threw"
                        ELSE IF pc = Len(Script(params)) THEN "done"
                        ELSE "running"
    /\ params' = params
    /\ UNCHANGED <<hostVars, limiterVars>>

(***************************************************************************)
(* Parser (parse of public/playground.js, the copy of parser.js).  The     *)
(* nodes parse builds are not kept, only the type of the last one; what    *)
(* is modelled is how far parse reads and how it ends.                     *)
(***************************************************************************)
\* tokens[i] past the end of the array: undefined
EOF == [type |-> "EOF", value |-> "", line |-> -1]

NoError == [type |-> "none", named |-> FALSE, line |-> 0]
\* new SyntaxError(...): whether the message names the kind and the value of
\* a token, and the line number it gives (0: none, "unknown" or NaN)
SyntaxError(named, line) == [type |-> "SyntaxError", named |-> named, line |-> line]
\* a property of undefined is read
TypeError == [type |-> "TypeError", named |-> FALSE, line |-> 0]
\* a loop is still running after more turns than there are tokens
NoReturn == [type |-> "NoReturn", named |-> FALSE, line |-> 0]

\* the state of a parse: i, what was thrown, and the type of the node the
\* last parse function returned
NoParser == [i |-> 0, err |-> NoError, node |-> "none"]
ok(P) == P.err.type = "none"
throw(P, err) == [P EXCEPT !.err = err]
returns(P, node) == [P EXCEPT !.node = node]

\* playground.js 1354-1356 peek
peek(tokens, P, offset) ==
    IF P.i + offset + 1 <= Len(tokens) THEN tokens[P.i + offset + 1] ELSE EOF

\* playground.js 1358-1360 next
next(P) == [P EXCEPT !.i = @ + 1]

is(t, type, value) == t.type = type /\ t.value = value

\* playground.js 1362-1374 expect; value "" stands for null
expect(tokens, P, type, value) ==
    LET t == peek(tokens, P, 0)
    IN  IF ~ok(P) THEN P
        ELSE IF t = EOF THEN throw(P, SyntaxError(FALSE, 0))
        ELSE IF t.type # type \/ (value # "" /\ t.value # value)
        THEN throw(P, SyntaxError(TRUE, t.line + 1))
        ELSE next(P)

\* playground.js 1377-1382 skipSeparators
RECURSIVE skipSeparators(_, _)
skipSeparators(tokens, P) ==
    IF ok(P) /\ P.i < Len(tokens) /\ tokens[P.i + 1].type \in {"NEWLINE", "SEMICOLON"}
    THEN skipSeparators(tokens, next(P))
    ELSE P

assignmentOps == {"=", "+=", "-=", "*=", "/="}

\* playground.js 1423-1432: the index after the bracket that closes the one
\* before lookahead, or the end of the tokens; -1 if token.type is read of a
\* token past the end
RECURSIVE skipBrackets(_, _, _, _)
skipBrackets(tokens, P, lookahead, bracketCount) ==
    IF ~(lookahead < Len(tokens) /\ bracketCount > 0) THEN lookahead
    ELSE LET token == peek(tokens, P, lookahead)
         IN  IF token = EOF THEN -1
             ELSE skipBrackets(tokens, P, lookahead + 1,
                      IF is(token, "OPERATOR", "[") THEN bracketCount + 1
                      ELSE IF is(token, "OPERATOR", "]") THEN bracketCount - 1
                      ELSE bracketCount)

\* playground.js 1411-1441: the while loop of isAssignment
RECURSIVE lookaheadLoop(_, _, _)
lookaheadLoop(tokens, P, lookahead) ==
    LET nextToken == peek(tokens, P, lookahead)
        closed == skipBrackets(tokens, P, lookahead + 1, 1)
    IN  IF ~(lookahead < Len(tokens)) \/ nextToken = EOF THEN "false"
        ELSE IF is(nextToken, "OPERATOR", ".")
        THEN IF peek(tokens, P, lookahead + 1).type = "IDENTIFIER"
             THEN lookaheadLoop(tokens, P, lookahead + 2)
             ELSE "false"
        ELSE IF is(nextToken, "OPERATOR", "[")
        THEN IF closed = -1 THEN "TypeError" ELSE lookaheadLoop(tokens, P, closed)
        ELSE IF nextToken.type = "OPERATOR" /\ nextToken.value \in assignmentOps
        THEN "true"
        ELSE "false"

\* playground.js 1401-1442 isAssignment: "true", "false", or "TypeError"
isAssignment(tokens, P) ==
    LET t == peek(tokens, P, 0)
        t1 == peek(tokens, P, 1)
    IN  IF ~(t.type = "IDENTIFIER" \/ is(t, "KEYWORD", "this")) THEN "false"
        ELSE IF t1.type = "OPERATOR" /\ t1.value \in assignmentOps THEN "true"
        ELSE lookaheadLoop(tokens, P, 1)

\* the operators of the levels of binary expressions, outermost first:
\* parseOr, parseAnd, parseEquality, parseComparison, parseTerm, parseFactor
binaryLevels ==
    <<[type |-> "KEYWORD", ops |-> {"or"}], [type |-> "KEYWORD", ops |-> {"and"}],
      [type |-> "OPERATOR", ops |-> {"==", "!="}],
      [type |-> "OPERATOR", ops |-> {"<", ">", "<=", ">="}],
      [type |-> "OPERATOR", ops |-> {"+", "-"}],
      [type |-> "OPERATOR", ops |-> {"*", "/", "%"}]>>

RECURSIVE parseProgram(_, _, _)
RECURSIVE programLoop(_, _, _, _)
RECURSIVE parseStatement(_, _)
RECURSIVE parseFunction(_, _)
RECURSIVE paramLoop(_, _, _)
RECURSIVE parseClass(_, _)
RECURSIVE classLoop(_, _, _)
RECURSIVE parseIf(_, _)
RECURSIVE elseIfLoop(_, _)
RECURSIVE parseWhile(_, _)
RECURSIVE parseFor(_, _)
RECURSIVE parseExpression(_, _)
RECURSIVE binaryLoop(_, _)
RECURSIVE parseUnary(_, _)
RECURSIVE parseCall(_, _)
RECURSIVE callLoop(_, _)
RECURSIVE argsLoop(_, _, _)
RECURSIVE parsePrimary(_, _)
RECURSIVE newArgsLoop(_, _, _)
RECURSIVE parseArray(_, _)
RECURSIVE arrayLoop(_, _, _)
RECURSIVE parseObject(_, _)
RECURSIVE objectLoop(_, _, _)

\* playground.js 1384-1399 parseProgram
parseProgram(tokens, P, stopKeywords) ==
    programLoop(tokens, skipSeparators(tokens, P), stopKeywords, 0)

\* playground.js 1388-1397: the while loop of parseProgram, n turns done
programLoop(tokens, P, stopKeywords, n) ==
    LET t == peek(tokens, P, 0)
    IN  IF ~ok(P) THEN P
        ELSE IF ~(P.i < Len(tokens)) THEN returns(P, "Program")
        ELSE IF t.type = "KEYWORD" /\ t.value \in stopKeywords THEN returns(P, "Program")
        ELSE IF n > Len(tokens) THEN throw(P, NoReturn)
        ELSE programLoop(tokens, skipSeparators(tokens, parseStatement(tokens, P)),
                         stopKeywords, n + 1)

\* playground.js 1401-1507 parseStatement
parseStatement(tokens, P0) ==
    LET P == skipSeparators(tokens, P0)
        t == peek(tokens, P, 0)
    IN  IF ~ok(P) THEN P
        ELSE IF t = EOF THEN returns(P, "null")
        ELSE IF isAssignment(tokens, P) = "TypeError" THEN throw(P, TypeError)
        ELSE IF isAssignment(tokens, P) = "true"
        THEN LET left == parseCall(tokens, P)
                 after == peek(tokens, left, 0)
             IN  IF ~ok(left) THEN left
                 ELSE IF left.node \notin {"Variable", "Get", "Index"}
                 THEN IF after = EOF THEN throw(left, TypeError)
                      ELSE throw(left, SyntaxError(FALSE, after.line + 1))
                 ELSE IF after = EOF THEN throw(left, TypeError)
                 ELSE returns(parseExpression(tokens, next(left)), "Assignment")
        ELSE IF is(t, "KEYWORD", "function") THEN parseFunction(tokens, P)
        ELSE IF is(t, "KEYWORD", "class") THEN parseClass(tokens, P)
        ELSE IF is(t, "KEYWORD", "if") THEN parseIf(tokens, P)
        ELSE IF is(t, "KEYWORD", "while") THEN parseWhile(tokens, P)
        ELSE IF is(t, "KEYWORD", "for") THEN parseFor(tokens, P)
        ELSE IF is(t, "KEYWORD", "return")
        THEN returns(parseExpression(tokens, next(P)), "Return")
        ELSE IF is(t, "KEYWORD", "break") THEN returns(next(P), "Break")
        ELSE IF is(t, "KEYWORD", "continue") THEN returns(next(P), "Continue")
        ELSE returns(parseExpression(tokens, P), "ExprStmt")

\* playground.js 1509-1523 parseFunction
parseFunction(tokens, P) ==
    LET P1 == expect(tokens, P, "KEYWORD", "function")
        t == peek(tokens, P1, 0)
        P2 == IF t.type = "IDENTIFIER" THEN next(P1) ELSE P1
        P3 == expect(tokens, P2, "OPERATOR", "(")
        P4 == paramLoop(tokens, P3, 0)
        P5 == expect(tokens, P4, "OPERATOR", ")")
        P6 == parseProgram(tokens, P5, {"end"})
    IN  IF ~ok(P1) THEN P1
        ELSE IF t = EOF THEN throw(P1, TypeError)
        ELSE returns(expect(tokens, P6, "KEYWORD", "end"), "Function")

\* playground.js 1515-1518: the while loop of parseFunction, n turns done
paramLoop(tokens, P, n) ==
    LET t == peek(tokens, P, 0)
        P1 == IF t.type = "IDENTIFIER" THEN next(P) ELSE P
        t1 == peek(tokens, P1, 0)
        P2 == IF is(t1, "OPERATOR", ",") THEN next(P1) ELSE P1
    IN  IF ~ok(P) THEN P
        ELSE IF t = EOF THEN throw(P, TypeError)
        ELSE IF is(t, "OPERATOR", ")") THEN P
        ELSE IF n > Len(tokens) THEN throw(P, NoReturn)
        ELSE IF t1 = EOF THEN throw(P1, TypeError)
        ELSE paramLoop(tokens, P2, n + 1)

\* playground.js 1525-1555 parseClass
parseClass(tokens, P) ==
    LET P1 == expect(tokens, P, "KEYWORD", "class")
        P2 == expect(tokens, P1, "IDENTIFIER", "")
        P3 == classLoop(tokens, skipSeparators(tokens, P2), 0)
    IN  returns(expect(tokens, P3, "KEYWORD", "end"), "Class")

\* playground.js 1531-1552: the while loop of parseClass, n turns done
classLoop(tokens, P, n) ==
    LET t == peek(tokens, P, 0)
        t1 == peek(tokens, P, 1)
    IN  IF ~ok(P) THEN P
        ELSE IF t = EOF THEN throw(P, TypeError)
        ELSE IF is(t, "KEYWORD", "end") THEN P
        ELSE IF n > Len(tokens) THEN throw(P, NoReturn)
        ELSE IF is(t, "KEYWORD", "function")
        THEN classLoop(tokens, skipSeparators(tokens, parseFunction(tokens, P)), n + 1)
        ELSE IF t.type = "IDENTIFIER" /\ t1 # EOF /\ t1.value = "="
        THEN classLoop(tokens,
                 skipSeparators(tokens, parseExpression(tokens, next(next(P)))), n + 1)
        ELSE throw(P, SyntaxError(TRUE, t.line + 1))

\* playground.js 1557-1578 parseIf
parseIf(tokens, P) ==
    LET P1 == expect(tokens, P, "KEYWORD", "if")
        P2 == parseExpression(tokens, P1)
        P3 == parseProgram(tokens, P2, {"elseif", "else", "end"})
        P4 == elseIfLoop(tokens, P3)
        t == peek(tokens, P4, 0)
        P5 == IF is(t, "KEYWORD", "else") THEN parseProgram(tokens, next(P4), {"end"})
              ELSE P4
    IN  IF ~ok(P4) THEN P4
        ELSE IF t = EOF THEN throw(P4, TypeError)
        ELSE returns(expect(tokens, P5, "KEYWORD", "end"), "If")

\* playground.js 1564-1569: the elseif loop of parseIf
elseIfLoop(tokens, P) ==
    LET t == peek(tokens, P, 0)
    IN  IF ~ok(P) THEN P
        ELSE IF t = EOF THEN throw(P, TypeError)
        ELSE IF is(t, "KEYWORD", "elseif")
        THEN elseIfLoop(tokens,
                 parseProgram(tokens, parseExpression(tokens, next(P)),
                              {"elseif", "else", "end"}))
        ELSE P

\* playground.js 1580-1586 parseWhile
parseWhile(tokens, P) ==
    LET P1 == expect(tokens, P, "KEYWORD", "while")
        P2 == parseExpression(tokens, P1)
        P3 == parseProgram(tokens, P2, {"end"})
    IN  returns(expect(tokens, P3, "KEYWORD", "end"), "While")

\* playground.js 1588-1612 parseFor
parseFor(tokens, P) ==
    LET P1 == expect(tokens, P, "KEYWORD", "for")
        P2 == expect(tokens, P1, "OPERATOR", "(")
        P3 == expect(tokens, P2, "IDENTIFIER", "")
        t == peek(tokens, P3, 0)
        P4 == parseExpression(tokens, next(P3))
        P5 == expect(tokens, P4, "OPERATOR", ")")
        P6 == parseProgram(tokens, P5, {"end"})
        P7 == expect(tokens, P6, "KEYWORD", "end")
    IN  IF ~ok(P3) THEN P3
        ELSE IF is(t, "OPERATOR", ",") THEN returns(P7, "ForRange")
        ELSE IF is(t, "KEYWORD", "in") THEN returns(P7, "For")
        ELSE throw(P3, SyntaxError(FALSE, IF t = EOF THEN 0 ELSE t.line + 1))

\* playground.js 1615-1686 parseExpression, parseOr ... parseFactor: the
\* levels differ in their operators and in the node they build; each parses
\* an operand of the next level and then, as long as one of its operators
\* follows, another one. How far they read together is one loop: a unary
\* expression, and another one after each binary operator of any level.
parseExpression(tokens, P) == binaryLoop(tokens, parseUnary(tokens, P))

\* the while loops of parseOr ... parseFactor
binaryLoop(tokens, P) ==
    LET t == peek(tokens, P, 0)
    IN  IF ~ok(P) THEN P
        ELSE IF \E level \in 1..Len(binaryLevels) :
                    t.type = binaryLevels[level].type /\ t.value \in binaryLevels[level].ops
        THEN binaryLoop(tokens, returns(parseUnary(tokens, next(P)), "Binary"))
        ELSE P

\* playground.js 1688-1702 parseUnary
parseUnary(tokens, P) ==
    LET t == peek(tokens, P, 0)
    IN  IF ~ok(P) THEN P
        ELSE IF (t.type = "OPERATOR" /\ t.value \in {"-", "+", "!"}) \/ is(t, "KEYWORD", "not")
        THEN returns(parseUnary(tokens, next(P)), "Unary")
        ELSE parseCall(tokens, P)

\* playground.js 1704-1742 parseCall
parseCall(tokens, P) == callLoop(tokens, parsePrimary(tokens, P))

\* playground.js 1706-1740: the while loop of parseCall
callLoop(tokens, P) ==
    LET t == peek(tokens, P, 0)
        P1 == next(P)
        t1 == peek(tokens, P1, 0)
    IN  IF ~ok(P) THEN P
        ELSE IF is(t, "OPERATOR", "(")
        THEN IF t1 = EOF THEN throw(P1, TypeError)
             ELSE callLoop(tokens,
                      returns(expect(tokens,
                                     IF is(t1, "OPERATOR", ")") THEN P1
                                     ELSE argsLoop(tokens, P1, 0),
                                     "OPERATOR", ")"), "Call"))
        ELSE IF is(t, "OPERATOR", ".")
        THEN callLoop(tokens, returns(expect(tokens, P1, "IDENTIFIER", ""), "Get"))
        ELSE IF is(t, "OPERATOR", "[")
        THEN callLoop(tokens,
                 returns(expect(tokens, parseExpression(tokens, P1), "OPERATOR", "]"),
                         "Index"))
        ELSE P

\* playground.js 1716-1723: the while (true) loop of the arguments
argsLoop(tokens, P, n) ==
    LET P1 == parseExpression(tokens, P)
        t == peek(tokens, P1, 0)
    IN  IF ~ok(P) THEN P
        ELSE IF n > Len(tokens) THEN throw(P, NoReturn)
        ELSE IF ~ok(P1) THEN P1
        ELSE IF t = EOF THEN throw(P1, TypeError)
        ELSE IF is(t, "OPERATOR", ",") THEN argsLoop(tokens, next(P1), n + 1)
        ELSE P1

\* playground.js 1744-1803 parsePrimary
parsePrimary(tokens, P) ==
    LET t == peek(tokens, P, 0)
        P1 == next(P)
        classToken == peek(tokens, P1, 0)
        P2 == next(P1)
        t2 == peek(tokens, P2, 0)
    IN  IF ~ok(P) THEN P
        ELSE IF t = EOF THEN throw(P, SyntaxError(FALSE, 0))
        ELSE IF t.type \in {"NUMBER", "STRING"} THEN returns(P1, "Literal")
        ELSE IF t.type = "KEYWORD" /\ t.value \in {"true", "false", "null", "undefined"}
        THEN returns(P1, "Literal")
        ELSE IF is(t, "KEYWORD", "this") THEN returns(P1, "This")
        ELSE IF is(t, "KEYWORD", "new")
        THEN IF classToken = EOF THEN throw(P1, TypeError)
             ELSE IF classToken.type # "IDENTIFIER"
             THEN throw(P1, SyntaxError(FALSE, classToken.line + 1))
             ELSE IF t2 = EOF THEN throw(P2, TypeError)
             ELSE IF is(t2, "OPERATOR", "(")
             THEN returns(expect(tokens, newArgsLoop(tokens, next(P2), 0), "OPERATOR", ")"),
                          "New")
             ELSE returns(P2, "New")
        ELSE IF t.type = "KEYWORD" THEN throw(P1, SyntaxError(TRUE, t.line + 1))
        ELSE IF t.type = "IDENTIFIER" THEN returns(P1, "Variable")
        ELSE IF is(t, "OPERATOR", "(")
        THEN expect(tokens, parseExpression(tokens, P1), "OPERATOR", ")")
        ELSE IF is(t, "OPERATOR", "[") THEN parseArray(tokens, P)
        ELSE IF is(t, "OPERATOR", "{") THEN parseObject(tokens, P)
        ELSE throw(P, SyntaxError(TRUE, t.line + 1))

\* playground.js 1769-1774: the while loop of the arguments of new
newArgsLoop(tokens, P, n) ==
    LET t == peek(tokens, P, 0)
        P1 == parseExpression(tokens, P)
        t1 == peek(tokens, P1, 0)
    IN  IF ~ok(P) THEN P
        ELSE IF t = EOF THEN throw(P, TypeError)
        ELSE IF is(t, "OPERATOR", ")") THEN P
        ELSE IF n > Len(tokens) THEN throw(P, NoReturn)
        ELSE IF ~ok(P1) THEN P1
        ELSE IF t1 = EOF THEN throw(P1, TypeError)
        ELSE newArgsLoop(tokens, IF is(t1, "OPERATOR", ",") THEN next(P1) ELSE P1, n + 1)

\* playground.js 1805-1829 parseArray
parseArray(tokens, P) ==
    LET P1 == skipSeparators(tokens, expect(tokens, P, "OPERATOR", "["))
        t == peek(tokens, P1, 0)
    IN  IF ~ok(P1) THEN P1
        ELSE IF t = EOF THEN throw(P1, TypeError)
        ELSE IF is(t, "OPERATOR", "]") THEN returns(next(P1), "Array")
        ELSE returns(expect(tokens, arrayLoop(tokens, P1, 0), "OPERATOR", "]"), "Array")

\* playground.js 1815-1825: the while (true) loop of parseArray
arrayLoop(tokens, P, n) ==
    LET P1 == skipSeparators(tokens, parseExpression(tokens, P))
        t == peek(tokens, P1, 0)
    IN  IF ~ok(P) THEN P
        ELSE IF n > Len(tokens) THEN throw(P, NoReturn)
        ELSE IF ~ok(P1) THEN P1
        ELSE IF t = EOF THEN throw(P1, TypeError)
        ELSE IF is(t, "OPERATOR", ",")
        THEN arrayLoop(tokens, skipSeparators(tokens, next(P1)), n + 1)
        ELSE P1

\* playground.js 1831-1860 parseObject
parseObject(tokens, P) ==
    LET P1 == skipSeparators(tokens, expect(tokens, P, "OPERATOR", "{"))
        t == peek(tokens, P1, 0)
    IN  IF ~ok(P1) THEN P1
        ELSE IF t = EOF THEN throw(P1, TypeError)
        ELSE IF is(t, "OPERATOR", "}") THEN returns(next(P1), "Object")
        ELSE returns(expect(tokens, objectLoop(tokens, P1, 0), "OPERATOR", "}"), "Object")

\* playground.js 1841-1856: the while (true) loop of parseObject
objectLoop(tokens, P, n) ==
    LET t == peek(tokens, P, 0)
        P1 == expect(tokens, expect(tokens, P, "IDENTIFIER", ""), "OPERATOR", ":")
        P2 == skipSeparators(tokens, parseExpression(tokens, P1))
        t2 == peek(tokens, P2, 0)
    IN  IF ~ok(P) THEN P
        ELSE IF t = EOF THEN throw(P, TypeError)
        ELSE IF t.type # "IDENTIFIER" THEN P
        ELSE IF n > Len(tokens) THEN throw(P, NoReturn)
        ELSE IF ~ok(P2) THEN P2
        ELSE IF t2 = EOF THEN throw(P2, TypeError)
        ELSE IF is(t2, "OPERATOR", ",")
        THEN objectLoop(tokens, skipSeparators(tokens, next(P2)), n + 1)
        ELSE P2

\* playground.js 1351, 1862 parse
parse(tokens) == parseProgram(tokens, NoParser, {"end"})

(***************************************************************************)
(* Tokenizer (tokenizer.js).                                               *)
(***************************************************************************)
\* the characters of the codes drawn here; "@" is one the language has no
\* use for
Chars == {" ", "#", "\"", "\\", "1", ".", "o", "r", "=", ";", "@", "\n"}

\* tokenizer.js 17-39 (the ones the characters above can spell)
keywords == {<<"o", "r">>}

\* /\s/
isSpace(c) == c = " "
\* /\d/
isDigit(c) == c = "1"
\* /[\d.]/
isNumberChar(c) == c \in {"1", "."}
\* /[a-zA-Z_]/
isIdentifierStart(c) == c \in {"o", "r"}
\* /\w/
isWordChar(c) == c \in {"o", "r", "1"}

\* tokenizer.js 115-127 (the ones the characters above can spell)
twoCharOps == {<<"=", "=">>}

\* code.split("\n")
RECURSIVE split(_, _)
split(code, line) ==
    IF code = <<>> THEN <<line>>
    ELSE IF Head(code) = "\n" THEN <<line>> \o split(Tail(code), <<>>)
    ELSE split(Tail(code), Append(line, Head(code)))

\* !line.trim()
isBlank(line) == \A k \in 1..Len(line) : isSpace(line[k])

Token(type, value, line) == [type |-> type, value |-> value, line |-> line]

\* the index after the longest run of characters of a class from index j
RECURSIVE runEnd(_, _, _)
runEnd(line, j, class) ==
    IF j <= Len(line) /\ line[j] \in class THEN runEnd(line, j + 1, class) ELSE j

\* tokenizer.js 69-80: the characters of a string literal from index j to
\* the closing quote or the end of the line; a backslash takes the next
\* character as it is (n and t are not drawn)
RECURSIVE scanString(_, _, _, _)
scanString(line, j, quote, str) ==
    IF ~(j <= Len(line) /\ line[j] # quote) THEN [str |-> str, j |-> j]
    ELSE IF line[j] = "\\" /\ j + 1 <= Len(line)
         THEN scanString(line, j + 2, quote, Append(str, line[j + 1]))
         ELSE scanString(line, j + 1, quote, Append(str, line[j]))

\* parseFloat(num) of a run of digits and dots that starts with a digit: the
\* digits, and the digits after a first dot if there are any
parseFloat(num) ==
    LET dot == runEnd(num, 1, {"1"})
        end == runEnd(num, dot + 1, {"1"})
    IN  IF dot <= Len(num) /\ end > dot + 1 THEN SubSeq(num, 1, end - 1)
        ELSE SubSeq(num, 1, dot - 1)

\* what tokenize holds while it runs: the lines, the index of the line it is
\* in (lineNum + 1), whether it is at the top of the for or inside the while,
\* i, hasTokensOnLine and the tokens
NoLexer(code) ==
    [lines |-> split(code, <<>>), ln |-> 1, at |-> "for", i |-> 0, has |-> FALSE,
     tokens |-> <<>>]

\* tokenizer.js 42-52: the top of the for loop
startLine(lx) ==
    IF isBlank(lx.lines[lx.ln])
    THEN [lx EXCEPT !.ln = @ + 1,
                    !.tokens = IF lx.ln > 0 /\ lx.tokens # <<>>
                               THEN Append(@, Token("NEWLINE", <<"\n">>, lx.ln - 1))
                               ELSE @]
    ELSE [lx EXCEPT !.at = "while", !.i = 0, !.has = FALSE]

\* tokenizer.js 146-151: after the while loop
endLine(lx) ==
    [lx EXCEPT !.at = "for", !.ln = @ + 1,
               !.tokens = IF lx.has THEN Append(@, Token("NEWLINE", <<"\n">>, lx.ln - 1))
                          ELSE @]

\* tokenizer.js 114-144: operators and punctuation
scanOperator(lx) ==
    LET line == lx.lines[lx.ln]
        j == lx.i + 1
        two == IF j + 1 <= Len(line) THEN <<line[j], line[j + 1]>> ELSE <<>>
        op == IF two \in twoCharOps THEN two ELSE <<line[j]>>
    IN  [lx EXCEPT !.i = @ + Len(op), !.has = TRUE,
                   !.tokens = Append(@, Token(IF op = <<";">> THEN "SEMICOLON"
                                              ELSE "OPERATOR", op, lx.ln - 1))]

\* tokenizer.js 56-144: one turn of the while loop, with line[i] = line[j]
scan(lx) ==
    LET line == lx.lines[lx.ln]
        j == lx.i + 1
        c == line[j]
    IN  CASE isSpace(c) -> [lx EXCEPT !.i = @ + 1]
          [] c = "\"" ->
                LET s == scanString(line, j + 1, c, <<>>)
                IN  [lx EXCEPT !.i = IF s.j <= Len(line) THEN s.j ELSE s.j - 1,
                               !.has = TRUE,
                               !.tokens = Append(@, Token("STRING", s.str, lx.ln - 1))]
          [] isDigit(c) ->
                LET end == runEnd(line, j, {"1", "."})
                IN  [lx EXCEPT !.i = end - 1, !.has = TRUE,
                               !.tokens = Append(@, Token("NUMBER",
                                              parseFloat(SubSeq(line, j, end - 1)), lx.ln - 1))]
          [] isIdentifierStart(c) ->
                LET end == runEnd(line, j, {"o", "r", "1"})
                    id == SubSeq(line, j, end - 1)
                IN  [lx EXCEPT !.i = end - 1, !.has = TRUE,
                               !.tokens = Append(@, Token(IF id \in keywords THEN "KEYWORD"
                                                          ELSE "IDENTIFIER", id, lx.ln - 1))]
          [] OTHER -> scanOperator(lx)

\* tokenizer.js 42-154: one step of tokenize
tokenizeStep(lx) ==
    IF lx.at = "for" THEN startLine(lx)
    ELSE IF lx.i < Len(lx.lines[lx.ln]) /\ lx.lines[lx.ln][lx.i + 1] # "#" THEN scan(lx)
    ELSE endLine(lx)

(***************************************************************************)
(* Actions: the tokenizer.                                                 *)
(***************************************************************************)
\* tokenize runs to its return; nothing in it throws
Tokenize ==
    /\ status = "tokenizing"
    /\ IF machine.ln > Len(machine.lines)
       THEN /\ status' = "done"
            /\ UNCHANGED <<machine, pc>>
       ELSE /\ machine' = tokenizeStep(machine)
            /\ pc' = pc + 1
            /\ status' = status
    /\ params' = params
    /\ UNCHANGED <<hostVars, limiterVars>>

(***************************************************************************)
(* Actions: the parser.                                                    *)
(***************************************************************************)
\* the kinds of token of the sequences drawn here
TokenKinds ==
    {Token("IDENTIFIER", "x", 0), Token("NUMBER", "1", 0),
     Token("OPERATOR", "(", 0), Token("OPERATOR", ")", 0), Token("OPERATOR", ",", 0),
     Token("OPERATOR", "=", 0), Token("OPERATOR", "[", 0), Token("OPERATOR", "]", 0),
     Token("OPERATOR", "{", 0), Token("OPERATOR", "}", 0), Token("OPERATOR", ":", 0),
     Token("KEYWORD", "function", 0), Token("KEYWORD", "class", 0),
     Token("KEYWORD", "if", 0), Token("KEYWORD", "while", 0), Token("KEYWORD", "end", 0),
     Token("KEYWORD", "new", 0), Token("NEWLINE", "\n", 0)}

\* the tokens tokenize gives for the kinds: each with the number of its line,
\* and a NEWLINE after the last line
RECURSIVE numbered(_, _)
numbered(kinds, lineNum) ==
    IF kinds = <<>> THEN <<>>
    ELSE <<[Head(kinds) EXCEPT !.line = lineNum]>>
         \o numbered(Tail(kinds), IF Head(kinds).type = "NEWLINE" THEN lineNum + 1
                                  ELSE lineNum)
tokensOf(kinds) ==
    IF kinds = <<>> \/ kinds[Len(kinds)].type = "NEWLINE" THEN numbered(kinds, 0)
    ELSE numbered(Append(kinds, Token("NEWLINE", "\n", 0)), 0)

\* parse(tokens), to its return or to what it throws
Parse ==
    /\ status = "parsing"
    /\ machine' = parse(tokensOf(params.kinds))
    /\ pc' = machine'.i
    /\ status' = IF ok(machine') THEN "returned"
                 ELSE IF machine'.err = NoReturn THEN "running"
                 ELSE "threw"
    /\ params' = params
    /\ UNCHANGED <<hostVars, limiterVars>>

(***************************************************************************)
(* Settings: from the client's interpret request to the script's globals.  *)
(***************************************************************************)
\* a property of the client's settings object: not there, falsy or truthy
Flags == {"absent", "false", "true"}
\* the two hosts of index.js and the message each posts to its worker
Hosts == {"run", "init"}

\* { ...base, ...over }: an own property of over replaces the one of base
\* (NoLimits: no property limits)
spread(base, over) ==
    [k \in DOMAIN base |->
        IF k = "limits" THEN (IF over[k] # NoLimits THEN over[k] ELSE base[k])
        ELSE IF over[k] # "absent" THEN over[k] ELSE base[k]]

\* index.js 162-167, 304-310: enhancedSettings
enhancedSettings(settings) ==
    [spread([enableFs |-> "absent", enableShell |-> "absent", limits |-> NoLimits], settings)
        EXCEPT !.enableFs = "false", !.enableShell = "false",
               !.limits = hostLimits(settings.limits)]

\* index.js 312-318 and 587: the message posted to the worker
postMessage(host, settings) ==
    IF host = "run" THEN [type |-> "run", settings |-> enhancedSettings(settings)]
    ELSE [type |-> "init", settings |-> settings]

\* index.js 531-538: workerData.options of the host that posts 'init'
options == [enableFs |-> "false", enableShell |-> "false"]

\* the worker of the 'init' message, 108-112: secureSettings
secureSettings(settings) ==
    spread([enableFs |-> IF options.enableFs = "true" THEN "true" ELSE "false",
            enableShell |-> IF options.enableShell = "true" THEN "true" ELSE "false",
            limits |-> NoLimits], settings)

\* interpreter-worker.js 67-73: settings of the 'run' message
workerSettings(msg) ==
    IF msg.type = "run" THEN msg.settings ELSE secureSettings(msg.settings)

\* interpreter.js 356-385 getInitialState: the names added to the variables
getInitialState(settings) ==
    {"console"} \cup (IF settings.enableFs = "true" THEN {"fs"} ELSE {})
                \cup (IF settings.enableShell = "true" THEN {"shell"} ELSE {})

\* socket.on('interpret') and runInterpreter: the message is posted
PostMessage ==
    /\ status = "requested"
    /\ machine' = postMessage(params.host, params.settings)
    /\ status' = "posted"
    /\ pc' = pc + 1
    /\ params' = params
    /\ UNCHANGED <<hostVars, limiterVars>>

\* the worker's message handler: state = getInitialState(callbacks, settings)
GetInitialState ==
    /\ status = "posted"
    /\ machine' = [variables |-> getInitialState(workerSettings(machine))]
    /\ status' = "installed"
    /\ pc' = pc + 1
    /\ params' = params
    /\ UNCHANGED <<hostVars, limiterVars>>

(***************************************************************************)
(* Specifications.                                                         *)
(***************************************************************************)
InitHost ==
    /\ isGuestRunnerActive = FALSE
    /\ guestQueue = <<>>
    /\ requests = <<>>
    \* socket ids are arbitrary: the logged-in sockets are given the lower ones
    /\ sockets \in {f \in [Sockets -> [loggedIn : BOOLEAN, connected : {TRUE}]] :
                       \A a, b \in Sockets : (a < b /\ f[b].loggedIn) => f[a].loggedIn}
    /\ sess = [r \in Reqs |-> NoSession]
    /\ wk = [r \in Reqs |-> NoWorker]
    /\ order = <<>>
    /\ now = 0
    /\ nevents = 0

\* no script is given to the evaluator
NoScript == [fam |-> "none"]
InitEvalIdle ==
    /\ params = NoScript
    /\ pc = 0
    /\ machine = NoMachine
    /\ status = "idle"

Init ==
    /\ InitHost
    /\ resourceLimiter = newResourceLimiter(Infinity)
    /\ calls = <<>>
    /\ InitEvalIdle

\* the statements and settings the host specification draws from
HostStmts == {s \in CallStmts : s.ctx = "top" /\ s.op = "bad"}
HostScripts == {<<>>} \cup UNION {[1..n -> HostStmts] : n \in 1..MaxStmts}
HostSettings == {NoLimits}

\* Several sockets and requests; short scripts.
Next ==
    \/ \E sock \in Sockets, settings \in HostSettings : Interpret(sock, settings, MaxRequests)
    \/ \E sock \in Sockets : StopExecution(sock)
    \/ \E sock \in Sockets : Disconnect(sock)
    \/ \E r \in Reqs : Timeout(r, FALSE)
    \/ \E r \in Reqs : HostMessage(r)
    \/ \E r \in Reqs : HostError(r)
    \/ \E r \in Reqs : HostExit(r)
    \/ \E r \in Reqs, script \in HostScripts : WorkerScript(r, script)
    \/ \E r \in Reqs : WorkerCrash(r)

Spec == Init /\ [][Next]_vars

\* The guests' queue with the timers the host's event loop runs: a timer set by
\* runInterpreter (index.js 214) and not cleared is run by Node once it is due,
\* however the other handlers are scheduled.
InitQueue ==
    /\ Init
    /\ \A sock \in Sockets : ~sockets[sock].loggedIn

\* socket ids are arbitrary: the first request is the one of socket 1
NextQueue ==
    \/ \E sock \in Sockets, settings \in HostSettings :
           /\ requests = <<>> => sock = 1
           /\ Interpret(sock, settings, MaxQueued)
    \/ \E sock \in Sockets : StopExecution(sock)
    \/ \E sock \in Sockets : Disconnect(sock)
    \/ \E r \in Reqs : Timeout(r, FALSE)
    \/ \E r \in Reqs : HostMessage(r)
    \/ \E r \in Reqs : HostError(r)
    \/ \E r \in Reqs : HostExit(r)
    \/ \E r \in Reqs : WorkerScript(r, <<>>)
    \/ \E r \in Reqs : WorkerCrash(r)

SpecQueue ==
    InitQueue /\ [][NextQueue]_vars /\ \A r \in Reqs : WF_vars(Timeout(r, FALSE))

\* One request with every kind of statement, settings with and without limits.
SessionSettings == {NoLimits, 1}
\* the socket of the request and the events it sends
SessionSockets == {1}
EventNames == {"onKeyDown", "onMouseClick"}

NextSession ==
    \/ \E sock \in SessionSockets, settings \in SessionSettings : Interpret(sock, settings, 1)
    \/ \E sock \in SessionSockets : StopExecution(sock)
    \/ \E sock \in SessionSockets : Disconnect(sock)
    \/ \E sock \in SessionSockets, name \in EventNames : InputEvent(sock, name, MaxSessionEvents)
    \/ \E r \in Reqs : Timeout(r, TRUE)
    \/ Tick
    \/ \E r \in Reqs : HostMessage(r)
    \/ \E r \in Reqs : HostError(r)
    \/ \E r \in Reqs : HostExit(r)
    \/ \E r \in Reqs : WorkerRun(r)
    \/ \E r \in Reqs, stmt \in CallStmts \cup DefStmts, env \in LimitEnv :
           WorkerStmt(r, stmt, env, MaxSessionStmts)
    \/ \E r \in Reqs : WorkerResume(r)
    \/ \E r \in Reqs : WorkerReturn(r)
    \/ \E r \in Reqs, env \in LimitEnv : WorkerEvent(r, env)
    \/ \E r \in Reqs : WorkerCrash(r)

InitSession ==
    /\ Init
    /\ \A sock \in Sockets \ SessionSockets : ~sockets[sock].loggedIn

SpecSession == InitSession /\ [][NextSession]_vars

InitLimiter ==
    /\ InitHost
    /\ \E n \in 1..MaxLimit : resourceLimiter = newResourceLimiter(n)
    /\ calls = <<>>
    /\ InitEvalIdle

NextLimiter ==
    \/ \E env \in LimitEnv : LimiterCall(env)
    \/ LimiterReset

SpecLimiter == InitLimiter /\ [][NextLimiter]_vars

\* the scripts of the evaluator's specification
LoopsParams ==
    [fam : {"loops"}, outer : LoopKinds, inner : LoopKinds, jump : Jumps,
     n : 1..MaxIter, k : 1..MaxIter, at : 0..MaxIter]
LogicParams == [fam : {"logic"}, op : {"and", "or"}, a : 0..MaxNum, b : 0..MaxNum]
OrderParams == [fam : {"order"}, shape : {"binary", "call", "array", "object", "block"}]
ScopeParams ==
    {p \in [fam : {"scope"}, name : {"x", "toString"},
            declared : {"global", "outer", "none"}, depth : 1..2] :
        p.declared = "outer" => p.depth = 2}
ClosureParams == [fam : {"closure"}, shape : {"global", "local"}, a : 1..MaxNum, b : 1..MaxNum]
\* the ${} expressions that log
Effectful == {"ok", "throws"}
InterpParams ==
    {p \in [fam : {"interp"}, e1 : ExprKinds, e2 : ExprKinds] :
        ~(p.e1 \in Effectful /\ p.e2 \in Effectful)}

CompoundParams ==
    [fam : {"compound"}, op : {"+=", "-=", "*=", "/="}, a : 1..MaxNum, b : 1..MaxNum,
     c : 1..MaxNum, touch : BOOLEAN]

SegmentsParams == [fam : {"segments"}, s1 : SegmentKinds, s2 : SegmentKinds]

InitEval ==
    /\ InitHost
    /\ \A sock \in Sockets : ~sockets[sock].loggedIn
    /\ resourceLimiter = newResourceLimiter(Infinity)
    /\ calls = <<>>
    /\ params \in LoopsParams \cup LogicParams \cup OrderParams \cup ScopeParams
                  \cup ClosureParams \cup InterpParams \cup CompoundParams
                  \cup SegmentsParams
    /\ pc = 1
    /\ machine = NoMachine
    /\ status = "running"

NextEval == EvalStatement

SpecEval == InitEval /\ [][NextEval]_vars

\* the codes tokenize is run on
RECURSIVE Codes(_)
Codes(n) ==
    IF n = 0 THEN {<<>>}
    ELSE Codes(n - 1) \cup {Append(code, c) : code \in Codes(n - 1), c \in Chars}

InitLex ==
    /\ InitHost
    /\ \A sock \in Sockets : ~sockets[sock].loggedIn
    /\ resourceLimiter = newResourceLimiter(Infinity)
    /\ calls = <<>>
    /\ params \in [fam : {"code"}, code : Codes(MaxCode)]
    /\ pc = 0
    /\ machine = NoLexer(params.code)
    /\ status = "tokenizing"

NextLex == Tokenize

SpecLex == InitLex /\ [][NextLex]_vars

\* the settings objects a client sends
ClientSettings ==
    [enableFs : Flags, enableShell : Flags, limits : {NoLimits} \cup 1..MaxLimit]

InitSettings ==
    /\ InitHost
    /\ resourceLimiter = newResourceLimiter(Infinity)
    /\ calls = <<>>
    /\ params \in [fam : {"settings"}, host : Hosts, settings : ClientSettings]
    /\ pc = 0
    /\ machine = NoMachine
    /\ status = "requested"

NextSettings == PostMessage \/ GetInitialState

SpecSettings == InitSettings /\ [][NextSettings]_vars

\* the token sequences parse is run on: a code does not start with a NEWLINE
RECURSIVE KindSeqs(_)
KindSeqs(n) ==
    IF n = 0 THEN {<<>>}
    ELSE KindSeqs(n - 1) \cup {Append(kinds, k) : kinds \in KindSeqs(n - 1), k \in TokenKinds}

InitParse ==
    /\ InitHost
    /\ \A sock \in Sockets : ~sockets[sock].loggedIn
    /\ resourceLimiter = newResourceLimiter(Infinity)
    /\ calls = <<>>
    /\ params \in {p \in [fam : {"tokens"}, kinds : KindSeqs(MaxTokens)] :
                      p.kinds = <<>> \/ p.kinds[1].type # "NEWLINE"}
    /\ pc = 0
    /\ machine = NoParser
    /\ status = "parsing"

NextParse == Parse

SpecParse == InitParse /\ [][NextParse]_vars

(***************************************************************************)
(* Properties.                                                             *)
(***************************************************************************)
\* what the client takes as the end of a run: a 'done' or an 'error' event
Terminals == {"done_OK", "done_exit", "done_timeout", "error"}
terminals(r) == SelectSeq(sess[r].sent, LAMBDA m : m \in Terminals)
\* the chunks and drawing commands forwarded to the client
Outputs == {"output", "canvas", "clear", "herr"}
count(seq, m) == Cardinality({i \in 1..Len(seq) : seq[i] = m})
\* the session's run is over for the host and nothing of its worker is in flight
settled(r) ==
    /\ sess[r].started
    /\ ~sess[r].isRunning
    /\ wk[r].chan = <<>>
    /\ sockets[sess[r].socket].connected

\* C1: in every reachable state at most one guest session is running.
AtMostOneGuestRunning ==
    Cardinality({r \in Reqs : sess[r].guest /\ sess[r].isRunning}) <= 1

\* C2: a session that is over was sent exactly one terminal outcome, and never
\* both a natural-completion done and a timeout done.
ExactlyOneTerminalOutcome ==
    \A r \in Reqs :
        settled(r) =>
            /\ Len(terminals(r)) = 1
            /\ ~(count(sess[r].sent, "done_timeout") > 0
                 /\ count(sess[r].sent, "done_OK") + count(sess[r].sent, "done_exit") > 0)

TimeoutTerminatesSession ==
    \A r \in Reqs :
        /\ sess[r].isRunning =>
              /\ sess[r].timeout = "armed"
              /\ sess[r].deadline = sess[r].startTime +
                    (IF sockets[sess[r].socket].loggedIn THEN 60000 ELSE 10000)
              /\ now <= sess[r].deadline
        /\ sess[r].timeout = "fired" =>
              /\ ~sess[r].isRunning
              /\ wk[r].st = "dead"
              /\ now >= sess[r].deadline
              /\ count(sess[r].sent, "done_timeout") = 1

\* C4 witness: the timeout fired on a session that was awaiting events
TimedOutWhileAwaiting ==
    \E r \in Reqs :
        /\ sess[r].timedOutIn = "awaiting"
        /\ count(sess[r].sent, "done_timeout") = 1
        /\ wk[r].st = "dead"

C6Inv ==
    \A r \in Reqs :
        wk[r].handlerErrors > 0 =>
            /\ wk[r].posted = {}
            /\ wk[r].st \in {"awaiting", "dead"}
            /\ count(wk[r].chan, "herr") + count(sess[r].sent, "herr") >= wk[r].handlerErrors
            /\ count(sess[r].sent, "done_OK") + count(sess[r].sent, "done_exit") = 0

C6Step ==
    \A r \in Reqs :
        (/\ wk[r].handlerErrors > 0
         /\ wk[r].st = "awaiting" /\ wk'[r].st = "awaiting"
         /\ wk[r].inbox # <<>> /\ wk'[r].inbox = Tail(wk[r].inbox)
         /\ wk[r].eventHandlers[Head(wk[r].inbox)] # "null")
        => wk'[r].dispatchedAfterError

\* C6: an error of an event handler of a session awaiting events is posted as
\* an output chunk, no done or error is posted for it, the worker goes on
\* awaiting, and a later event is still dispatched to its handler.
HandlerErrorIsOutput == []C6Inv /\ [][C6Step]_vars

\* C6 witness: after a handler's error reached the client as output, another
\* event was dispatched and the session is still awaiting
DispatchedAfterHandlerError ==
    \E r \in Reqs :
        /\ wk[r].handlerErrors > 0
        /\ wk[r].dispatchedAfterError
        /\ wk[r].st = "awaiting"
        /\ count(sess[r].sent, "herr") > 0

FirstCommandErrorAtNPlusOne ==
    \A i \in 1..Len(calls) :
        calls[i] = "command" <=> i >= resourceLimiter.limits.maxCommands + 1

inQueue(q, r) == \E i \in 1..Len(q) : q[i] = r

C11Inv ==
    /\ \A i, j \in 1..Len(order) :
          (i < j /\ sess[order[i]].guest /\ sess[order[j]].guest) => order[i] < order[j]
    /\ \A i \in 1..Len(guestQueue) : ~sess[guestQueue[i]].started

\* the socket of the request r is disconnected by the step
disconnects(r) ==
    sockets[sess[r].socket].connected /\ ~sockets'[sess[r].socket].connected

C11Step ==
    \A r \in Reqs :
        /\ (~sess[r].started /\ sess'[r].started /\ sess'[r].guest) =>
              /\ ~inQueue(guestQueue', r)
              /\ \A i, j \in 1..Len(guestQueue) :
                    (i < j /\ guestQueue[j] = r) => disconnects(guestQueue[i])
        /\ (inQueue(guestQueue, r) /\ ~inQueue(guestQueue', r)) =>
              (sess'[r].started \/ disconnects(r))

C12Inv ==
    \A r \in 1..Len(requests) :
        sockets[requests[r].socket].loggedIn =>
            (sess[r].started /\ sess[r].isLoggedIn /\ ~sess[r].guest /\ ~inQueue(guestQueue, r))

C12Step ==
    \A r \in Reqs :
        (\/ ~sess[r].started /\ sess'[r].started /\ sess'[r].isLoggedIn
         \/ sess[r].isLoggedIn /\ sess[r].isRunning /\ ~sess'[r].isRunning)
        => (guestQueue' = guestQueue /\ isGuestRunnerActive' = isGuestRunnerActive)

\* C12: a request of an authenticated socket is started in the step that
\* receives it, whatever the queue holds, and neither its start nor its end
\* changes guestQueue or isGuestRunnerActive.
AuthenticatedBypassesQueue == []C12Inv /\ [][C12Step]_vars

\* C12 witness: three authenticated sessions run at once while a guest
\* session cannot (no guest was received), each started on arrival
ThreeAuthenticatedRunning ==
    /\ Cardinality({r \in Reqs : sess[r].isLoggedIn /\ sess[r].isRunning}) = 3
    /\ guestQueue = <<>>
    /\ ~isGuestRunnerActive

\* C13: after every step of the host each waiting guest request was last sent
\* the position it has in guestQueue.
QueuePositionsCurrent ==
    \A i \in 1..Len(guestQueue) :
        /\ sess[guestQueue[i]].queuePos = i
        /\ count(sess[guestQueue[i]].sent, "queue_update") > 0

\* C13 witness: a waiting request moved up to position 1 after a dequeue
WaitingRequestMovedUp ==
    /\ Len(guestQueue) = 1
    /\ sess[guestQueue[1]].queuePos = 1
    /\ count(sess[guestQueue[1]].sent, "queue_update") = 2

C14Inv ==
    \A r \in Reqs : getUsage(wk[r].resourceLimiter).commands = wk[r].primitives

C14Step ==
    \A r \in Reqs :
        wk[r].st \notin {"none", "idle"} =>
            getUsage(wk'[r].resourceLimiter).commands >= getUsage(wk[r].resourceLimiter).commands

\* C14: getUsage().commands is the number of primitive calls made in the
\* session, those that raised included; once the run has started the counter
\* is never reset and never decreases.
UsageCountsPrimitiveCalls == []C14Inv /\ [][C14Step]_vars

\* C14 witness: two primitive calls were made, one of them raised a limit error
TwoCallsCountedOneRaised ==
    \E r \in Reqs :
        /\ wk[r].primitives = 2
        /\ wk[r].limitHit
        /\ getUsage(wk[r].resourceLimiter).commands = 2

\* what the two nested loops log when the jump touches the inner loop only:
\* iteration j of the inner loop stops after its first log when j = at, and
\* after a break no later iteration of that inner loop runs
innerLogs(p, i) ==
    flatten([q \in 1..p.k |->
        LET j == q - 1
        IN  IF p.jump = "Break" /\ j > p.at THEN <<>>
            ELSE IF j = p.at THEN <<Arr(<<Num(2), Num(i), Num(j)>>)>>
            ELSE <<Arr(<<Num(2), Num(i), Num(j)>>), Arr(<<Num(3), Num(i), Num(j)>>)>>])
loopsLogs(p) ==
    flatten([q \in 1..p.n |->
        <<Arr(<<Num(1), Num(q - 1)>>)>> \o innerLogs(p, q - 1) \o <<Arr(<<Num(4), Num(q - 1)>>)>>])

\* C15: a break ends, and a continue skips to the next iteration of, only the
\* innermost loop (while, for-in or for-range) around it: whatever the kinds
\* of the two nested loops, the script runs to its end, the inner loop is cut
\* where the jump is, and the outer loop runs every one of its iterations,
\* each to its last statement.
JumpTouchesInnermostLoopOnly ==
    (params.fam = "loops" /\ status # "running") =>
        /\ status = "done"
        /\ machine.out = loopsLogs(params)

\* a break in the second of three iterations of a for-range inside a while
\* that had two more iterations to run, and did
BreakInInnerOuterWentOn ==
    /\ params.fam = "loops" /\ status = "done"
    /\ params.outer = "While" /\ params.inner = "ForRange"
    /\ params.jump = "Break" /\ params.n = 3 /\ params.k = 3 /\ params.at = 1
    /\ Len(machine.out) = 15
    /\ machine.out[15] = Arr(<<Num(4), Num(2)>>)

\* C16: and / or short-circuit. In x = f(a) and f(b), x = f(a) or f(b), where
\* f logs its argument and returns it: when f(a) decides (falsy for and,
\* truthy for or) f(b) is not called, so only a is logged; and x is the value
\* of the deciding operand, not a boolean.
ShortCircuitSkipsRightOperand ==
    (params.fam = "logic" /\ status = "done") =>
        LET leftDecides == \/ params.op = "and" /\ params.a = 0
                           \/ params.op = "or" /\ params.a # 0
        IN  /\ machine.out = IF leftDecides THEN <<Num(params.a)>>
                             ELSE <<Num(params.a), Num(params.b)>>
            /\ machine.frames[1]["x"] = Num(IF leftDecides THEN params.a ELSE params.b)

\* C17: in a script without wait the statements of a block run top to bottom
\* and the operands of a binary operation, the callee and arguments of a
\* call and the elements of an array or object literal are evaluated left to
\* right, each completing before the next starts: with the calls of f
\* numbered in source order, the log is 1, 2, ... at every moment and holds
\* all six numbers at the end.
EvaluationInSourceOrder ==
    params.fam = "order" =>
        /\ status # "threw"
        /\ machine.out = [i \in 1..Len(machine.out) |-> Num(i)]
        /\ status = "done" => Len(machine.out) = 6

\* a call whose callee is itself a call, and a call nested in an argument,
\* have run
NestedCallsEvaluated ==
    /\ params.fam = "order" /\ params.shape = "call" /\ status = "done"
    /\ Len(machine.out) = 6
    /\ machine.frames[1]["x"] = Num(2)
    /\ machine.frames[1]["y"] = Num(4)

\* the frame the script's declaration put the name in: the global one, the
\* call frame of the enclosing function g, or none, and then the innermost
\* frame of the assignment (the call frame of f, the last one created)
declaredFrame(p, m) ==
    CASE p.declared = "global" -> 1
      [] p.declared = "outer" -> 2
      [] OTHER -> Len(m.frames)

\* C18: a plain assignment to a name that some frame of the environment
\* holds updates the innermost frame holding it and no other frame; a plain
\* assignment to a name held by no frame creates it in the innermost frame
\* and leaves every outer frame, the global one included, unchanged. After
\* name = 2 in the function f, the frame that held the name (the innermost
\* frame if none did) has 2 and no other frame has the name.
AssignmentUpdatesHolderOrCreatesInnermost ==
    (params.fam = "scope" /\ status = "done") =>
        \A i \in 1..Len(machine.frames) :
            machine.frames[i][params.name] =
                IF i = declaredFrame(params, machine) THEN Num(2) ELSE Absent

\* C19: a function value holds a reference to the frames of its defining
\* environment, not a copy. With x = a; g defined (it logs x, then adds 10
\* to it); x = b; g(); log(x); g(): the first call logs b, the change the
\* defining code made after g was created; the defining code then logs
\* b + 10, the change the call made; the second call logs b + 10 as well,
\* and x ends as b + 20. With h(c) returning a g that adds 1 to c and logs
\* it, after h itself added b to c: two calls of one g log a + b + 1 and
\* a + b + 2, and the g of another call of h has its own c.
ClosureSharesDefiningFrames ==
    (params.fam = "closure" /\ status # "running") =>
        /\ status = "done"
        /\ params.shape = "global" =>
              /\ machine.out = <<Num(params.b), Num(params.b + 10), Num(params.b + 10)>>
              /\ machine.frames[1]["x"] = Num(params.b + 20)
        /\ params.shape = "local" =>
              machine.out = <<Num(params.a + params.b + 1), Num(params.a + params.b + 2),
                              Num(params.a + params.b + 1)>>

\* the counter of a returned function went from 3 to 4 and 5, the counter of
\* the other one from 3 to 4
TwoCountersAdvanced ==
    /\ params.fam = "closure" /\ params.shape = "local" /\ status = "done"
    /\ params.a = 1 /\ params.b = 2
    /\ machine.out = <<Num(4), Num(5), Num(4)>>
    /\ machine.frames[2]["c"] = Num(5)
    /\ machine.frames[3]["c"] = Num(4)

\* the ${} expressions whose evaluation raises, in parsing or in evaluating
Failing == {"noparse", "notfunction", "throws", "break", "dollars", "matched"}

\* the text a ${} expression should leave in the string
expectedText(kind) ==
    CASE kind \in Failing -> InterpPiece(kind).text
      [] kind = "ok" -> <<"1">>
      [] OTHER -> <<"undefined">>

\* C20: if the evaluation of a ${expr} of a string literal fails (parsing or
\* evaluating it raises), the original ${expr} text is left in the resulting
\* string, no error reaches the enclosing statement, and the script goes on
\* with the next statement: c = "a${..}b${..}" gives c each failing ${..} as
\* it was written, and the log(8) after the assignment runs.
FailedInterpolationKeepsText ==
    (params.fam = "interp" /\ status # "running") =>
        /\ status = "done"
        /\ machine.frames[1]["c"] =
              Str(<<"a">> \o expectedText(params.e1) \o <<"b">> \o expectedText(params.e2))
        /\ machine.out # <<>>
        /\ machine.out[Len(machine.out)] = Num(8)

\* C21: tokenize never raises, and a character that starts no recognized
\* token (here "@": not whitespace, #, a quote, a digit, an identifier
\* character or an operator or punctuation character of the language) is
\* skipped and produces no token.
UnknownCharacterProducesNoToken ==
    params.fam = "code" =>
        /\ status \in {"tokenizing", "done"}
        /\ \A k \in 1..Len(machine.tokens) :
              ~(machine.tokens[k].type = "OPERATOR" /\ machine.tokens[k].value = <<"@">>)

\* C22: every failure of parse on a token sequence is a SyntaxError whose
\* message names the kind and the value of the offending token and its
\* 1-based line number, also when the tokens end in the middle of a
\* construct (an if, while, function or class with no end, an unclosed
\* argument list).
ParseFailureNamesTokenAndLine ==
    (params.fam = "tokens" /\ status = "threw") =>
        /\ machine.err.type = "SyntaxError"
        /\ machine.err.named
        /\ machine.err.line >= 1

\* C23: the completion callback passed to runInterpreter is invoked exactly
\* once per session, whatever combination and order of the worker's done and
\* error messages, the worker's error and exit events, a stop request, a
\* disconnect and the timeout occurs: never twice, and once as soon as the
\* session is over.
CompletionCallbackExactlyOnce ==
    \A r \in Reqs :
        /\ sess[r].completions <= 1
        /\ (sess[r].started /\ ~sess[r].isRunning) => sess[r].completions = 1

\* the request r waits in the guests' queue
queued(r) == \E i \in 1..Len(guestQueue) : guestQueue[i] = r

\* C24 as stated: every guest request placed in the guest queue is eventually
\* started.
QueuedEventuallyStarted ==
    \A r \in Reqs : queued(r) ~> sess[r].started

\* C24: isGuestRunnerActive is true only while a guest session is live, and
\* every guest request placed in the guest queue is eventually started, unless
\* the disconnect of its socket takes it off the queue first.
QueuedEventuallyStartedOrRemoved ==
    /\ [](isGuestRunnerActive => \E r \in Reqs : sess[r].guest /\ sess[r].isRunning)
    /\ \A r \in Reqs : queued(r) ~> (sess[r].started \/ ~queued(r))

\* a request that waited while the queue moved on has been started
WaitingRequestStarted ==
    \E r \in Reqs :
        /\ sess[r].started
        /\ Len(SelectSeq(sess[r].sent, LAMBDA m : m = "queue_update")) >= 2

\* C25: when a guest socket disconnects while its request is still waiting in
\* the guest queue, the request is removed from the queue and its script is
\* never started: no request waits on a disconnected socket, and no waiting
\* request of a disconnected socket is started.
DisconnectRemovesQueuedRequest ==
    /\ [](\A r \in Reqs : queued(r) => sockets[sess[r].socket].connected)
    /\ [][\A r \in Reqs :
             (queued(r) /\ sess'[r].started) => sockets[sess[r].socket].connected]_vars

\* C26: in a compound assignment x op= expr the value of x is read before expr
\* is evaluated, the new value is computed from that value and the value of
\* expr, and it is stored in x: after x = a and x op= h(), with h returning c
\* (and assigning b to x on its way), x is a op c.
CompoundReadsTargetFirst ==
    (params.fam = "compound" /\ status # "running") =>
        /\ status = "done"
        /\ machine.frames[1]["x"] = binaryOp(compoundOp(params.op), Num(params.a), Num(params.c))

\* C27: parse terminates on every finite token sequence: every loop of the
\* parser consumes at least one token per iteration or leaves, so no loop
\* turns more often than there are tokens and parse returns or throws.
ParseTerminates ==
    params.fam = "tokens" =>
        /\ status \in {"parsing", "returned", "threw"}
        /\ machine.err # NoReturn

\* C28: the ${} segments of a string literal are evaluated one after another
\* from left to right, every side effect of an earlier segment before any
\* side effect of a later one: with the calls of f numbered in source order
\* the log is 1, 2, ... at every moment.
SegmentsEvaluatedInOrder ==
    params.fam = "segments" =>
        /\ status # "threw"
        /\ machine.out = [i \in 1..Len(machine.out) |-> Num(i)]
        /\ status = "done" =>
               Len(machine.out) = SegmentCalls(params.s1) + SegmentCalls(params.s2)

\* C29: in a session started through the host the fs and shell built-ins are
\* never installed in the script's global scope, whatever settings object
\* the client sends with its interpret request.
FsAndShellNeverInstalled ==
    (params.fam = "settings" /\ status = "installed") =>
        /\ "fs" \notin machine.variables
        /\ "shell" \notin machine.variables

\* the primitives of the scripts
Primitives == {"log", "pixel", "clear", "wait"}
\* the events a primitive emits
PrimitiveEvents == {"output", "canvas", "clear"}

\* C30: a primitive call that raises a limit error has no other effect: the
\* command counter is incremented and the limits are checked before the
\* primitive acts. In every state a call that raises the error leaves the
\* worker's messages as they are and counts the call, and the step in which
\* a run's first limit error is raised posts no output, canvas or clear
\* event and starts no wait.
LimitErrorHasNoOtherEffect ==
    /\ [](\A r \in Reqs, op \in Primitives, env \in LimitEnv :
            LET c == callBuiltin(wk[r], op, env)
            IN  c.sig = "limit" =>
                   /\ c.w.chan = wk[r].chan
                   /\ c.w.resourceLimiter.commandCount =
                         wk[r].resourceLimiter.commandCount + 1)
    /\ [][\A r \in Reqs :
             (~wk[r].limitHit /\ wk'[r].limitHit) =>
                /\ wk'[r].st = "waiting" => wk[r].st = "waiting"
                /\ \A i \in (Len(wk[r].chan) + 1)..Len(wk'[r].chan) :
                      wk'[r].chan[i] \notin PrimitiveEvents]_vars

\* a run ended by the limit error of its first primitive call: the client got
\* the error and no output
LimitErrorAndNoOutput ==
    \E r \in Reqs :
        /\ wk[r].limitHit
        /\ wk[r].primitives = 1
        /\ count(sess[r].sent, "error") = 1
        /\ \A i \in 1..Len(sess[r].sent) : sess[r].sent[i] \notin PrimitiveEvents

====
